---- MODULE Spec2Model ----
(***************************************************************************)
(* Model of the EXCELDaddy validation engine (lib/validation.ts), of the   *)
(* upload normaliser of app/page.tsx and of the cell editor of             *)
(* components/DataTable.tsx.                                               *)
(*                                                                         *)
(* JavaScript values are records [t, s, n, a]:                             *)
(*   t = "str"   s is the text                                             *)
(*   t = "num"   n is the (integer) number                                 *)
(*   t = "nan"   the number NaN                                            *)
(*   t = "undef" / "null" / "obj"                                          *)
(*   t = "bool"  n is 1 for true, 0 for false                              *)
(*   t = "arr"   a is the sequence of element values                       *)
(* Texts are TLA+ strings; the inputs of the model hold no '.', no         *)
(* exponent and no \u escape, so numbers are integers throughout.          *)
(***************************************************************************)
EXTENDS Integers, Sequences, FiniteSets, TLC

VARIABLES
    workSheets,        \* the snapshot: sequence of [name, rows] in key order
    validationResult,  \* result of the last validateAllData run
    prevResult,        \* result of the run before it on the same snapshot
    runs,              \* validateAllData runs on the snapshot since it was supplied
    before,            \* the snapshot as it was before the last run
    fn,                \* the validator last applied on its own ("none" before)
    fnArg,             \* the index of the sheet it was applied to
    fnOut,             \* what it returned: [threw, errors]
    pInput,            \* text handed to the list parsers
    pStage,            \* which parser has been applied to pInput
    pOut,              \* what it returned
    ui,                \* the page: filteredRows, the active tab, the mounted table
    mp                 \* the row mapper: its stage, the raw row, the row it built

vars == <<workSheets, validationResult, prevResult, runs, before, fn, fnArg, fnOut,
          pInput, pStage, pOut, ui, mp>>

(***************************************************************************)
(* JavaScript values                                                       *)
(***************************************************************************)
Str(s)  == [t |-> "str",   s |-> s,  n |-> 0, a |-> <<>>]
Num(n)  == [t |-> "num",   s |-> "", n |-> n, a |-> <<>>]
NaN     == [t |-> "nan",   s |-> "", n |-> 0, a |-> <<>>]
Undef   == [t |-> "undef", s |-> "", n |-> 0, a |-> <<>>]
Null    == [t |-> "null",  s |-> "", n |-> 0, a |-> <<>>]
Obj     == [t |-> "obj",   s |-> "", n |-> 0, a |-> <<>>]
Bool(b) == [t |-> "bool",  s |-> "", n |-> IF b THEN 1 ELSE 0, a |-> <<>>]
Arr(a)  == [t |-> "arr",   s |-> "", n |-> 0, a |-> a]

\* ToBoolean: the falsy values are undefined, null, "", 0, NaN and false.
Truthy(v) ==
    CASE v.t = "str"  -> v.s # ""
      [] v.t = "num"  -> v.n # 0
      [] v.t = "bool" -> v.n = 1
      [] v.t \in {"nan", "undef", "null"} -> FALSE
      [] OTHER -> TRUE

(***************************************************************************)
(* String primitives                                                       *)
(***************************************************************************)
CharAt(s, i) == SubSeq(s, i, i)
IsWs(c)      == c \in {" ", "\t", "\n", "\r"}
IsDigit(c)   == c \in {"0", "1", "2", "3", "4", "5", "6", "7", "8", "9"}
DigitVal(c)  == CASE c = "0" -> 0 [] c = "1" -> 1 [] c = "2" -> 2 [] c = "3" -> 3 [] c = "4" -> 4
                  [] c = "5" -> 5 [] c = "6" -> 6 [] c = "7" -> 7 [] c = "8" -> 8 [] c = "9" -> 9

\* first index >= i of s that holds no white space (Len(s)+1 when none)
RECURSIVE SkipWs(_, _)
SkipWs(s, i) == IF i <= Len(s) /\ IsWs(CharAt(s, i)) THEN SkipWs(s, i + 1) ELSE i

\* first index >= i of s that holds no digit
RECURSIVE SkipDigits(_, _)
SkipDigits(s, i) == IF i <= Len(s) /\ IsDigit(CharAt(s, i)) THEN SkipDigits(s, i + 1) ELSE i

RECURSIVE TrimEnd(_)
TrimEnd(s) == IF s # "" /\ IsWs(CharAt(s, Len(s))) THEN TrimEnd(SubSeq(s, 1, Len(s) - 1)) ELSE s

\* String.prototype.trim
Trim(s) == TrimEnd(SubSeq(s, SkipWs(s, 1), Len(s)))

\* String.prototype.startsWith
StartsWith(s, p) == Len(p) <= Len(s) /\ SubSeq(s, 1, Len(p)) = p

\* does the text w stand in s at index i
WordAt(s, i, w) == i + Len(w) - 1 <= Len(s) /\ SubSeq(s, i, i + Len(w) - 1) = w

\* String.prototype.includes
Includes(s, p) == \E i \in 1..(Len(s) - Len(p) + 1) : SubSeq(s, i, i + Len(p) - 1) = p

\* String.prototype.split on a one-character separator
RECURSIVE SplitFrom(_, _, _, _)
SplitFrom(s, sep, start, i) ==
    IF i > Len(s) THEN <<SubSeq(s, start, Len(s))>>
    ELSE IF CharAt(s, i) = sep
         THEN <<SubSeq(s, start, i - 1)>> \o SplitFrom(s, sep, i + 1, i + 1)
         ELSE SplitFrom(s, sep, start, i + 1)
Split(s, sep) == SplitFrom(s, sep, 1, 1)

UpperCase == "ABCDEFGHIJKLMNOPQRSTUVWXYZ"
LowerCase == "abcdefghijklmnopqrstuvwxyz"
LowerMap  == [c \in {CharAt(UpperCase, k) : k \in 1..26} |->
                 CharAt(LowerCase, CHOOSE k \in 1..26 : CharAt(UpperCase, k) = c)]
LowerOf(c) == IF c \in DOMAIN LowerMap THEN LowerMap[c] ELSE c

\* String.prototype.toLowerCase
RECURSIVE ToLowerCase(_)
ToLowerCase(s) == IF s = "" THEN "" ELSE LowerOf(CharAt(s, 1)) \o ToLowerCase(SubSeq(s, 2, Len(s)))

\* value of a non-empty run of decimal digits
RECURSIVE DigitsVal(_)
DigitsVal(s) ==
    IF s = "" THEN 0 ELSE 10 * DigitsVal(SubSeq(s, 1, Len(s) - 1)) + DigitVal(CharAt(s, Len(s)))

\* Number(text): white space is trimmed, "" is 0, an optionally signed run
\* of digits is its value, anything else is NaN.
TrimmedToNumber(t, body) ==
    IF t = "" THEN Num(0)
    ELSE IF body # "" /\ SkipDigits(body, 1) > Len(body)
         THEN Num(IF CharAt(t, 1) = "-" THEN 0 - DigitsVal(body) ELSE DigitsVal(body))
         ELSE NaN
StrToNumber(s) ==
    LET t == Trim(s) IN
    TrimmedToNumber(t, IF t # "" /\ CharAt(t, 1) \in {"-", "+"} THEN SubSeq(t, 2, Len(t)) ELSE t)

\* String(number) for an integer
RECURSIVE NatToStr(_)
NatToStr(n) ==
    IF n < 10 THEN CharAt("0123456789", n + 1)
    ELSE NatToStr(n \div 10) \o CharAt("0123456789", (n % 10) + 1)
NumToStr(n) == IF n < 0 THEN "-" \o NatToStr(0 - n) ELSE NatToStr(n)

(***************************************************************************)
(* JSON.parse and JSON.stringify                                           *)
(***************************************************************************)
Fail == [ok |-> FALSE, v |-> Undef, i |-> 0]
Ok(v, i) == [ok |-> TRUE, v |-> v, i |-> i]

IsHex(c) == IsDigit(c) \/ c \in {"a", "b", "c", "d", "e", "f", "A", "B", "C", "D", "E", "F"}

\* a JSON string body from index i (just after the opening quote)
RECURSIVE ParseString(_, _, _)
ParseString(s, i, acc) ==
    IF i > Len(s) THEN Fail
    ELSE LET c == CharAt(s, i) IN
         IF c = "\"" THEN Ok(Str(acc), i + 1)
         ELSE IF c = "\\"
         THEN IF i + 1 > Len(s) THEN Fail
              ELSE LET e == CharAt(s, i + 1) IN
                   IF e \in {"\"", "\\", "/"} THEN ParseString(s, i + 2, acc \o e)
                   ELSE IF e = "n" THEN ParseString(s, i + 2, acc \o "\n")
                   ELSE IF e = "t" THEN ParseString(s, i + 2, acc \o "\t")
                   ELSE IF e = "r" THEN ParseString(s, i + 2, acc \o "\r")
                   ELSE IF e = "f" THEN ParseString(s, i + 2, acc \o "\f")
                   ELSE IF e = "b" THEN ParseString(s, i + 2, acc \o "\\b")
                   ELSE IF e = "u" /\ i + 5 <= Len(s)
                                   /\ \A k \in 2..5 : IsHex(CharAt(s, i + k))
                        THEN ParseString(s, i + 6, acc \o SubSeq(s, i, i + 5))
                   ELSE Fail
         ELSE IF c \in {"\t", "\n", "\r", "\f"} THEN Fail
         ELSE ParseString(s, i + 1, acc \o c)

\* a JSON number from index i: -? (0 | [1-9][0-9]*)
ParseDigits(s, neg, j, k) ==
    IF k = j THEN Fail
    ELSE Ok(Num(IF neg THEN 0 - DigitsVal(SubSeq(s, j, k - 1)) ELSE DigitsVal(SubSeq(s, j, k - 1))), k)
ParseNumber(s, i) ==
    LET neg == CharAt(s, i) = "-"
        j   == IF neg THEN i + 1 ELSE i
    IN  ParseDigits(s, neg, j, IF j <= Len(s) /\ CharAt(s, j) = "0" THEN j + 1 ELSE SkipDigits(s, j))

RECURSIVE ParseValue(_, _), ParseArrayItems(_, _, _), ParseArrayRest(_, _, _)
RECURSIVE ParseMembers(_, _), ParseMemberValue(_, _), ParseMemberRest(_, _)

\* a JSON value from index i0, leading white space skipped
ParseValue(s, i0) ==
    LET i == SkipWs(s, i0) IN
    IF i > Len(s) THEN Fail
    ELSE LET c == CharAt(s, i) IN
         IF c = "[" THEN
             LET j == SkipWs(s, i + 1) IN
             IF j <= Len(s) /\ CharAt(s, j) = "]" THEN Ok(Arr(<<>>), j + 1)
             ELSE ParseArrayItems(s, j, <<>>)
         ELSE IF c = "{" THEN
             LET j == SkipWs(s, i + 1) IN
             IF j <= Len(s) /\ CharAt(s, j) = "}" THEN Ok(Obj, j + 1)
             ELSE ParseMembers(s, j)
         ELSE IF c = "\"" THEN ParseString(s, i + 1, "")
         ELSE IF c = "-" \/ IsDigit(c) THEN ParseNumber(s, i)
         ELSE IF WordAt(s, i, "true") THEN Ok(Bool(TRUE), i + 4)
         ELSE IF WordAt(s, i, "false") THEN Ok(Bool(FALSE), i + 5)
         ELSE IF WordAt(s, i, "null") THEN Ok(Null, i + 4)
         ELSE Fail

\* the elements of an array from index i, up to and including the "]"
ParseArrayItems(s, i, acc) == ParseArrayRest(s, acc, ParseValue(s, i))

\* what follows the element r of an array
ParseArrayRest(s, acc, r) ==
    IF ~r.ok THEN Fail
    ELSE LET j == SkipWs(s, r.i) IN
         IF j > Len(s) THEN Fail
         ELSE IF CharAt(s, j) = "," THEN ParseArrayItems(s, j + 1, Append(acc, r.v))
         ELSE IF CharAt(s, j) = "]" THEN Ok(Arr(Append(acc, r.v)), j + 1)
         ELSE Fail

\* the members of an object from index i, up to and including the "}";
\* the members are checked and not kept: no caller reads them
ParseMembers(s, i) ==
    LET j == SkipWs(s, i) IN
    IF j > Len(s) \/ CharAt(s, j) # "\"" THEN Fail
    ELSE ParseMemberValue(s, ParseString(s, j + 1, ""))

\* what follows the key k of a member: a colon and a value
ParseMemberValue(s, k) ==
    IF ~k.ok THEN Fail
    ELSE LET c == SkipWs(s, k.i) IN
         IF c > Len(s) \/ CharAt(s, c) # ":" THEN Fail
         ELSE ParseMemberRest(s, ParseValue(s, c + 1))

\* what follows the value r of a member
ParseMemberRest(s, r) ==
    IF ~r.ok THEN Fail
    ELSE LET e == SkipWs(s, r.i) IN
         IF e > Len(s) THEN Fail
         ELSE IF CharAt(s, e) = "," THEN ParseMembers(s, e + 1)
         ELSE IF CharAt(s, e) = "}" THEN Ok(Obj, e + 1)
         ELSE Fail

\* JSON.parse(text): ok = FALSE stands for the SyntaxError it throws
ParseEnd(s, r) ==
    IF r.ok /\ SkipWs(s, r.i) > Len(s) THEN [ok |-> TRUE, v |-> r.v]
    ELSE [ok |-> FALSE, v |-> Undef]
JSONParse(s) == ParseEnd(s, ParseValue(s, 1))

\* the text JSON.stringify gives for a string, quotes included
RECURSIVE QuoteBody(_)
QuoteBody(s) ==
    IF s = "" THEN ""
    ELSE LET c == CharAt(s, 1)
             e == IF c = "\"" THEN "\\\""
                  ELSE IF c = "\\" THEN "\\\\"
                  ELSE IF c = "\n" THEN "\\n"
                  ELSE IF c = "\t" THEN "\\t"
                  ELSE IF c = "\r" THEN "\\r"
                  ELSE IF c = "\f" THEN "\\f"
                  ELSE c
         IN  e \o QuoteBody(SubSeq(s, 2, Len(s)))
JSONQuote(s) == "\"" \o QuoteBody(s) \o "\""

\* JSON.stringify of a value; NaN and undefined elements print as null
RECURSIVE JSONStringify(_), StringifyItems(_)
JSONStringify(v) ==
    CASE v.t = "num"  -> NumToStr(v.n)
      [] v.t = "str"  -> JSONQuote(v.s)
      [] v.t = "bool" -> IF v.n = 1 THEN "true" ELSE "false"
      [] v.t = "arr"  -> "[" \o StringifyItems(v.a) \o "]"
      [] v.t = "obj"  -> "{}"
      [] OTHER        -> "null"
StringifyItems(a) ==
    IF a = <<>> THEN ""
    ELSE IF Len(a) = 1 THEN JSONStringify(a[1])
    ELSE JSONStringify(a[1]) \o "," \o StringifyItems(Tail(a))

(***************************************************************************)
(* Coercions                                                               *)
(***************************************************************************)
\* Number(value)
RECURSIVE ToNumber(_)
ToNumber(v) ==
    CASE v.t = "num"  -> v
      [] v.t = "str"  -> StrToNumber(v.s)
      [] v.t = "bool" -> Num(v.n)
      [] v.t = "null" -> Num(0)
      [] v.t = "arr"  -> IF v.a = <<>> THEN Num(0)
                         ELSE IF Len(v.a) = 1 /\ v.a[1].t \in {"num", "str", "nan"}
                              THEN ToNumber(v.a[1])
                              ELSE NaN
      [] OTHER        -> NaN

\* String(value)
ToStr(v) ==
    CASE v.t = "str"   -> v.s
      [] v.t = "num"   -> NumToStr(v.n)
      [] v.t = "nan"   -> "NaN"
      [] v.t = "undef" -> "undefined"
      [] v.t = "null"  -> "null"
      [] v.t = "bool"  -> IF v.n = 1 THEN "true" ELSE "false"
      [] v.t = "obj"   -> "[object Object]"
      [] OTHER         -> "[array]"

\* global isNaN(value)
IsNaNJS(v) == ToNumber(v).t = "nan"

\* Array.from({ length: end - start + 1 }, (_, i) => start + i): a NaN or
\* negative length counts as 0
RangeArray(start, end) ==
    IF start.t # "num" \/ end.t # "num" \/ end.n < start.n THEN <<>>
    ELSE [i \in 1..(end.n - start.n + 1) |-> Num(start.n + i - 1)]

(***************************************************************************)
(* The list parsers                                                        *)
(***************************************************************************)
\* try { return JSON.parse(...) } catch { return [] }
ParsedOrEmpty(r) == IF r.ok THEN r.v ELSE Arr(<<>>)

\* lib/validation.ts parseNumberArray.  The result is whatever the code
\* returns: an array for a range, the JSON value (array or not) for other
\* text, [] when JSON.parse throws.
parseNumberArray(val) ==
    IF val.t = "str" THEN
        IF Includes(val.s, "-") THEN
            LET parts == Split(val.s, "-")
            IN  Arr(RangeArray(StrToNumber(parts[1]), StrToNumber(parts[2])))
        ELSE ParsedOrEmpty(JSONParse(val.s))
    ELSE IF val.t = "arr" THEN Arr([i \in 1..Len(val.a) |-> ToNumber(val.a[i])])
    ELSE Arr(<<>>)

\* lib/validation.ts parseCSVList
parseCSVList(val) ==
    IF val.t = "str" THEN
        LET parts == Split(val.s, ",")
            trimmed == [i \in 1..Len(parts) |-> Trim(parts[i])]
        IN  SelectSeq(trimmed, LAMBDA x : x # "")
    ELSE IF val.t = "arr" THEN [i \in 1..Len(val.a) |-> ToStr(val.a[i])]
    ELSE <<>>

\* the test /^\d+\s*-\s*\d+$/ of normalizePreferredPhases
IsRangeText(s) ==
    LET d1 == SkipDigits(s, 1)
        m  == SkipWs(s, d1)
        d2 == SkipWs(s, m + 1)
        e  == SkipDigits(s, d2)
    IN  /\ d1 > 1
        /\ m <= Len(s) /\ CharAt(s, m) = "-"
        /\ e > d2
        /\ e > Len(s)

\* app/page.tsx and components/DataTable.tsx normalizePreferredPhases
\* (the two copies are the same text)
normalizePreferredPhases(input) ==
    IF input = "" THEN Arr(<<>>)
    ELSE IF IsRangeText(input) THEN
        LET parts == Split(input, "-")
        IN  Arr(RangeArray(StrToNumber(parts[1]), StrToNumber(parts[2])))
    ELSE IF StartsWith(Trim(input), "[") THEN
        ParsedOrEmpty(JSONParse(input))
    ELSE
        LET parts == Split(input, ",")
            nums  == [i \in 1..Len(parts) |-> StrToNumber(Trim(parts[i]))]
        IN  Arr(SelectSeq(nums, LAMBDA x : x.t # "nan"))

(***************************************************************************)
(* lib/validation.ts: sheets, rows and errors                              *)
(*                                                                         *)
(* A row is a function from the column names it has (its keys) to values;  *)
(* a sheet is [name, rows]; workSheets is the sequence of sheets in key    *)
(* order.  Row indexes in errors are the code's, from 0.                   *)
(***************************************************************************)
ClientColumns == <<"ClientID", "ClientName", "PriorityLevel", "RequestedTaskIDs", "GroupTag", "AttributesJSON">>
WorkerColumns == <<"WorkerID", "WorkerName", "Skills", "AvailableSlots", "MaxLoadPerPhase", "WorkerGroup", "QualificationLevel">>
TaskColumns   == <<"TaskID", "TaskName", "Category", "Duration", "RequiredSkills", "PreferredPhases", "MaxConcurrent">>

BaseKinds == {"Clients", "Workers", "Tasks"}

REQUIRED_COLUMNS(base) ==
    CASE base = "Clients" -> ClientColumns
      [] base = "Workers" -> WorkerColumns
      [] base = "Tasks"   -> TaskColumns

\* text.replace(/\s+/g, ' ')
RECURSIVE CollapseWs(_)
CollapseWs(s) ==
    IF s = "" THEN ""
    ELSE IF IsWs(CharAt(s, 1))
         THEN " " \o CollapseWs(SubSeq(s, SkipWs(s, 1), Len(s)))
         ELSE CharAt(s, 1) \o CollapseWs(SubSeq(s, 2, Len(s)))

getBaseSheetName(sheetName) ==
    LET cleanName == Trim(CollapseWs(ToLowerCase(sheetName))) IN
    IF StartsWith(cleanName, "client") THEN "Clients"
    ELSE IF StartsWith(cleanName, "worker") THEN "Workers"
    ELSE IF StartsWith(cleanName, "task") THEN "Tasks"
    ELSE sheetName

\* row[column]: undefined when the row has no such key
Get(row, col) == IF col \in DOMAIN row THEN row[col] ELSE Undef

Msg(tpl, args) == [tpl |-> tpl, args |-> args]

Error(message, rowIndex, column, sheetName, value) ==
    [type |-> "error", message |-> message, rowIndex |-> rowIndex,
     column |-> column, sheetName |-> sheetName, value |-> value]

\* the concatenation of f[1], ..., f[n]
RECURSIVE Flatten(_)
Flatten(f) == IF f = <<>> THEN <<>> ELSE Head(f) \o Flatten(Tail(f))

\* x < y on numbers: false when either side is NaN or undefined
LessNum(x, y) == x.t = "num" /\ y.t = "num" /\ x.n < y.n
AddNum(x, y)  == IF x.t = "num" /\ y.t = "num" THEN Num(x.n + y.n) ELSE NaN
MulNum(x, y)  == IF x.t = "num" /\ y.t = "num" THEN Num(x.n * y.n) ELSE NaN

\* value.length
LengthOf(v) ==
    CASE v.t = "arr" -> Num(Len(v.a))
      [] v.t = "str" -> Num(Len(v.s))
      [] OTHER       -> Undef

(***************************************************************************)
(* Per-sheet validators                                                    *)
(***************************************************************************)
\* validateRequiredColumns computed once per row in place of once per sheet
validateRequiredColumnsPerRow(sheetName, data) ==
    LET base == getBaseSheetName(sheetName) IN
    IF base \notin BaseKinds THEN <<>>
    ELSE Flatten([i \in 1..Len(data) |->
            LET required == REQUIRED_COLUMNS(base)
                missing  == SelectSeq(required, LAMBDA col : col \notin DOMAIN data[i])
            IN  [k \in 1..Len(missing) |->
                    Error(Msg("Missing required column", <<Str(missing[k])>>),
                          -1, missing[k], sheetName, Undef)]])

validateRequiredColumns(sheetName, data) ==
    LET base == getBaseSheetName(sheetName) IN
    IF base \notin BaseKinds THEN <<>>
    ELSE IF data = <<>> THEN <<>>
    ELSE LET required == REQUIRED_COLUMNS(base)
             missing  == SelectSeq(required, LAMBDA col : col \notin DOMAIN data[1])
         IN  [k \in 1..Len(missing) |->
                 Error(Msg("Missing required column", <<Str(missing[k])>>),
                       -1, missing[k], sheetName, Undef)]

\* REQUIRED_COLUMNS[baseSheetName] on a name the object literal does not
\* define but inherits (a function of Object.prototype): the value is truthy
\* and has no filter method
InheritedKeys == {"constructor", "toString", "valueOf", "hasOwnProperty"}

\* required.filter(...) is a TypeError on an inherited value, once the sheet
\* has a row
RequiredColumnsThrow(sheetName, data) ==
    getBaseSheetName(sheetName) \in InheritedKeys /\ data # <<>>

IdColumn(base) ==
    CASE base = "Clients" -> "ClientID"
      [] base = "Workers" -> "WorkerID"
      [] base = "Tasks"   -> "TaskID"
      [] OTHER            -> ""

\* the forEach of validateDuplicateIDs from row i on, with the set `seen`
\* and the errors pushed so far
RECURSIVE DuplicateLoop(_, _, _, _, _, _)
DuplicateLoop(sheetName, data, idColumn, i, seen, errors) ==
    IF i > Len(data) THEN errors
    ELSE LET id == Get(data[i], idColumn)
             flagged == Truthy(id) /\ ToStr(id) \in seen
         IN  DuplicateLoop(sheetName, data, idColumn, i + 1,
                 IF Truthy(id) THEN seen \cup {ToStr(id)} ELSE seen,
                 IF flagged
                 THEN Append(errors, Error(Msg("Duplicate", <<Str(idColumn), id>>),
                                           i - 1, idColumn, sheetName, id))
                 ELSE errors)

validateDuplicateIDs(sheetName, data) ==
    LET idColumn == IdColumn(getBaseSheetName(sheetName)) IN
    IF idColumn = "" THEN <<>>
    ELSE DuplicateLoop(sheetName, data, idColumn, 1, {}, <<>>)

\* validatePriorityLevel with the bounds excluded (<= 1 and >= 5 in place of
\* < 1 and > 5)
validatePriorityLevelExclusive(data, sheetName) ==
    IF getBaseSheetName(sheetName) # "Clients" THEN <<>>
    ELSE Flatten([i \in 1..Len(data) |->
            LET priority == ToNumber(Get(data[i], "PriorityLevel")) IN
            IF priority.t = "nan" \/ ~LessNum(Num(1), priority) \/ ~LessNum(priority, Num(5))
            THEN <<Error(Msg("PriorityLevel must be between 1-5", <<Get(data[i], "PriorityLevel")>>),
                         i - 1, "PriorityLevel", sheetName, Get(data[i], "PriorityLevel"))>>
            ELSE <<>>])

\* validateDuration without the test of the sheet's kind
validateDurationAnySheet(data, sheetName) ==
    Flatten([i \in 1..Len(data) |->
        LET duration == ToNumber(Get(data[i], "Duration")) IN
        IF duration.t = "nan" \/ LessNum(duration, Num(1))
        THEN <<Error(Msg("Duration must be >= 1", <<Get(data[i], "Duration")>>),
                     i - 1, "Duration", sheetName, Get(data[i], "Duration"))>>
        ELSE <<>>])

validatePriorityLevel(data, sheetName) ==
    IF getBaseSheetName(sheetName) # "Clients" THEN <<>>
    ELSE Flatten([i \in 1..Len(data) |->
            LET priority == ToNumber(Get(data[i], "PriorityLevel")) IN
            IF priority.t = "nan" \/ LessNum(priority, Num(1)) \/ LessNum(Num(5), priority)
            THEN <<Error(Msg("PriorityLevel must be between 1-5", <<Get(data[i], "PriorityLevel")>>),
                         i - 1, "PriorityLevel", sheetName, Get(data[i], "PriorityLevel"))>>
            ELSE <<>>])

validateDuration(data, sheetName) ==
    IF getBaseSheetName(sheetName) # "Tasks" THEN <<>>
    ELSE Flatten([i \in 1..Len(data) |->
            LET duration == ToNumber(Get(data[i], "Duration")) IN
            IF duration.t = "nan" \/ LessNum(duration, Num(1))
            THEN <<Error(Msg("Duration must be >= 1", <<Get(data[i], "Duration")>>),
                         i - 1, "Duration", sheetName, Get(data[i], "Duration"))>>
            ELSE <<>>])

\* slots.some(...) is a TypeError unless parseNumberArray returned an array
SlotsThrowAt(data, i) == parseNumberArray(Get(data[i], "AvailableSlots")).t # "arr"

\* the error of validateAvailableSlots for row i, whose cell parsed to slots
SlotsErrors(row, i, sheetName, slots) ==
    IF \E k \in 1..Len(slots.a) : IsNaNJS(slots.a[k])
    THEN <<Error(Msg("AvailableSlots contains non-numeric values", <<Get(row, "AvailableSlots")>>),
                 i - 1, "AvailableSlots", sheetName, Get(row, "AvailableSlots"))>>
    ELSE <<>>

\* [threw, errors]: threw when some row makes slots.some(...) a TypeError
validateAvailableSlots(data, sheetName) ==
    IF getBaseSheetName(sheetName) # "Workers" THEN [threw |-> FALSE, errors |-> <<>>]
    ELSE IF \E i \in 1..Len(data) : SlotsThrowAt(data, i) THEN [threw |-> TRUE, errors |-> <<>>]
    ELSE [threw |-> FALSE,
          errors |-> Flatten([i \in 1..Len(data) |->
            SlotsErrors(data[i], i, sheetName,
                        parseNumberArray(Get(data[i], "AvailableSlots")))])]

\* AttributesOutcome with the test for ':' left out
AttributesOutcomeNoColon(row) ==
    LET v == Get(row, "AttributesJSON") IN
    IF ~(Truthy(v) /\ v.t = "str") THEN "skip"
    ELSE IF JSONParse(v.s).ok THEN "skip"
    ELSE IF ~StartsWith(Trim(v.s), "{") /\ ~StartsWith(Trim(v.s), "[") THEN "repair"
    ELSE "error"

\* what validateAttributesJSON does with one row:
\*   "skip"   the cell is falsy, not a string, or parses as JSON
\*   "repair" the text is wrapped as {"message": text} and stored in the row
\*   "error"  the text is left and an error is pushed
AttributesOutcome(row) ==
    LET v == Get(row, "AttributesJSON") IN
    IF ~(Truthy(v) /\ v.t = "str") THEN "skip"
    ELSE IF JSONParse(v.s).ok THEN "skip"
    ELSE LET trimmedValue == Trim(v.s) IN
         IF /\ ~StartsWith(trimmedValue, "{")
            /\ ~StartsWith(trimmedValue, "[")
            /\ ~Includes(trimmedValue, ":")
         THEN "repair"
         ELSE "error"

\* the object literal written out by hand, its key and text not quoted
MessageUnquoted(text) == "{message:" \o text \o "}"

\* JSON.stringify({ message: trimmedValue })
MessageJSON(text) == "{\"message\":" \o JSONQuote(text) \o "}"

\* the repair stored under another key of the row
RepairedRowInGroupTag(row) ==
    [row EXCEPT !["GroupTag"] = Str(MessageJSON(Trim(row["AttributesJSON"].s)))]

\* the repair of the text as typed, not trimmed
RepairedRowUntrimmed(row) ==
    [row EXCEPT !["AttributesJSON"] = Str(MessageJSON(row["AttributesJSON"].s))]

RepairedRow(row) ==
    [row EXCEPT !["AttributesJSON"] = Str(MessageJSON(Trim(row["AttributesJSON"].s)))]

\* [rows, errors]: rows is the data after the in-place repairs
validateAttributesJSON(data, sheetName) ==
    IF getBaseSheetName(sheetName) # "Clients" THEN [rows |-> data, errors |-> <<>>]
    ELSE [rows |-> [i \in 1..Len(data) |->
                      IF AttributesOutcome(data[i]) = "repair" THEN RepairedRow(data[i]) ELSE data[i]],
          errors |-> Flatten([i \in 1..Len(data) |->
                      IF AttributesOutcome(data[i]) = "error"
                      THEN <<Error(Msg("Invalid JSON in AttributesJSON", <<Get(data[i], "AttributesJSON")>>),
                                   i - 1, "AttributesJSON", sheetName, Get(data[i], "AttributesJSON"))>>
                      ELSE <<>>])]

(***************************************************************************)
(* Cross-sheet validators                                                  *)
(***************************************************************************)
validateTaskReferences(clients, tasks) ==
    LET taskIds == {Get(tasks[j], "TaskID") : j \in 1..Len(tasks)} IN
    Flatten([i \in 1..Len(clients) |->
        LET requestedTasks == parseCSVList(Get(clients[i], "RequestedTaskIDs"))
            invalidTasks   == SelectSeq(requestedTasks, LAMBDA taskId : Str(taskId) \notin taskIds)
        IN  [k \in 1..Len(invalidTasks) |->
                Error(Msg("RequestedTaskID not found in Tasks sheet", <<Str(invalidTasks[k])>>),
                      i - 1, "RequestedTaskIDs", "Clients", Str(invalidTasks[k]))]])

\* availableSlots.length is a TypeError on null and undefined
OverloadThrowAt(workers, i) ==
    parseNumberArray(Get(workers[i], "AvailableSlots")).t \in {"null", "undef"}

\* the error of validateWorkerOverload for worker i
OverloadErrors(i, availableSlots, maxLoad) ==
    IF LessNum(LengthOf(availableSlots), maxLoad)
    THEN <<Error(Msg("Worker has available slots but MaxLoadPerPhase is",
                     <<LengthOf(availableSlots), maxLoad>>),
                 i - 1, "MaxLoadPerPhase", "Workers", maxLoad)>>
    ELSE <<>>

validateWorkerOverload(workers) ==
    IF \E i \in 1..Len(workers) : OverloadThrowAt(workers, i) THEN [threw |-> TRUE, errors |-> <<>>]
    ELSE [threw |-> FALSE,
          errors |-> Flatten([i \in 1..Len(workers) |->
            OverloadErrors(i, parseNumberArray(Get(workers[i], "AvailableSlots")),
                           ToNumber(Get(workers[i], "MaxLoadPerPhase")))])]

\* validateMaxConcurrency with a worker qualified only when it holds every
\* required skill (every in place of some)
validateMaxConcurrencyFullCoverage(tasks, workers) ==
    Flatten([i \in 1..Len(tasks) |->
        LET maxConcurrent  == ToNumber(Get(tasks[i], "MaxConcurrent"))
            requiredSkills == parseCSVList(Get(tasks[i], "RequiredSkills"))
            qualifiedWorkers ==
                SelectSeq(workers, LAMBDA worker :
                    LET workerSkills == parseCSVList(Get(worker, "Skills")) IN
                    \A a \in 1..Len(requiredSkills) : \E b \in 1..Len(workerSkills) :
                        requiredSkills[a] = workerSkills[b])
        IN  IF LessNum(Num(Len(qualifiedWorkers)), maxConcurrent)
            THEN <<Error(Msg("MaxConcurrent exceeds qualified workers",
                             <<maxConcurrent, Num(Len(qualifiedWorkers))>>),
                         i - 1, "MaxConcurrent", "Tasks", maxConcurrent)>>
            ELSE <<>>])

\* validateSkillCoverage with the skills of the first worker in place of the
\* union over all workers
validateSkillCoverageFirstWorker(workers, tasks) ==
    LET workerSkills ==
            UNION {{parseCSVList(Get(workers[j], "Skills"))[k] :
                        k \in 1..Len(parseCSVList(Get(workers[j], "Skills")))} :
                   j \in {n \in 1..Len(workers) : n = 1}}
    IN  Flatten([i \in 1..Len(tasks) |->
            LET requiredSkills == parseCSVList(Get(tasks[i], "RequiredSkills"))
                missingSkills  == SelectSeq(requiredSkills, LAMBDA skill : skill \notin workerSkills)
            IN  [k \in 1..Len(missingSkills) |->
                    Error(Msg("Required skill not available in any worker", <<Str(missingSkills[k])>>),
                          i - 1, "RequiredSkills", "Tasks", Str(missingSkills[k]))]])

validateSkillCoverage(workers, tasks) ==
    LET workerSkills ==
            UNION {{parseCSVList(Get(workers[j], "Skills"))[k] :
                        k \in 1..Len(parseCSVList(Get(workers[j], "Skills")))} : j \in 1..Len(workers)}
    IN  Flatten([i \in 1..Len(tasks) |->
            LET requiredSkills == parseCSVList(Get(tasks[i], "RequiredSkills"))
                missingSkills  == SelectSeq(requiredSkills, LAMBDA skill : skill \notin workerSkills)
            IN  [k \in 1..Len(missingSkills) |->
                    Error(Msg("Required skill not available in any worker", <<Str(missingSkills[k])>>),
                          i - 1, "RequiredSkills", "Tasks", Str(missingSkills[k]))]])

validateMaxConcurrency(tasks, workers) ==
    Flatten([i \in 1..Len(tasks) |->
        LET maxConcurrent  == ToNumber(Get(tasks[i], "MaxConcurrent"))
            requiredSkills == parseCSVList(Get(tasks[i], "RequiredSkills"))
            qualifiedWorkers ==
                SelectSeq(workers, LAMBDA worker :
                    LET workerSkills == parseCSVList(Get(worker, "Skills")) IN
                    \E a \in 1..Len(requiredSkills) : \E b \in 1..Len(workerSkills) :
                        requiredSkills[a] = workerSkills[b])
        IN  IF LessNum(Num(Len(qualifiedWorkers)), maxConcurrent)
            THEN <<Error(Msg("MaxConcurrent exceeds qualified workers",
                             <<maxConcurrent, Num(Len(qualifiedWorkers))>>),
                         i - 1, "MaxConcurrent", "Tasks", maxConcurrent)>>
            ELSE <<>>])

validateCircularCoRunGroups(clients) == <<>>

validateConflictingRules(tasks) == <<>>

\* A Map<number, number> in insertion order: a sequence of [k, v].
MapHas(m, key) == \E i \in 1..Len(m) : m[i].k = key
MapGet(m, key) == IF MapHas(m, key) THEN m[CHOOSE i \in 1..Len(m) : m[i].k = key].v ELSE Undef
MapSet(m, key, val) ==
    IF MapHas(m, key)
    THEN [i \in 1..Len(m) |-> IF m[i].k = key THEN [k |-> key, v |-> val] ELSE m[i]]
    ELSE Append(m, [k |-> key, v |-> val])

\* map.get(key) || 0
GetOrZero(m, key) == IF Truthy(MapGet(m, key)) THEN MapGet(m, key) ELSE Num(0)

\* phases.forEach(phase => map.set(phase, (map.get(phase) || 0) + amount))
RECURSIVE AddToPhases(_, _, _)
AddToPhases(m, phases, amount) ==
    IF phases = <<>> THEN m
    ELSE AddToPhases(MapSet(m, Head(phases), AddNum(GetOrZero(m, Head(phases)), amount)),
                     Tail(phases), amount)

\* the first loop of validatePhaseSlotSaturation
RECURSIVE PhaseSlots(_, _)
PhaseSlots(workers, m) ==
    IF workers = <<>> THEN m
    ELSE PhaseSlots(Tail(workers),
            AddToPhases(m, parseNumberArray(Get(Head(workers), "AvailableSlots")).a,
                        ToNumber(Get(Head(workers), "MaxLoadPerPhase"))))

\* the second loop of validatePhaseSlotSaturation
RECURSIVE PhaseRequirements(_, _)
PhaseRequirements(tasks, m) ==
    IF tasks = <<>> THEN m
    ELSE PhaseRequirements(Tail(tasks),
            AddToPhases(m, parseNumberArray(Get(Head(tasks), "PreferredPhases")).a,
                        MulNum(ToNumber(Get(Head(tasks), "Duration")),
                               ToNumber(Get(Head(tasks), "MaxConcurrent")))))

\* availableSlots.forEach / preferredPhases.forEach is a TypeError unless
\* parseNumberArray returned an array
SaturationThrows(tasks, workers) ==
    \/ \E i \in 1..Len(workers) : parseNumberArray(Get(workers[i], "AvailableSlots")).t # "arr"
    \/ \E i \in 1..Len(tasks) : parseNumberArray(Get(tasks[i], "PreferredPhases")).t # "arr"

\* the error of one entry of phaseRequirements, if any
SaturationError(phase, required, available) ==
    IF LessNum(available, required)
    THEN <<Error(Msg("Phase requires slots but only are available",
                     <<phase, required, available>>),
                 -1, "PreferredPhases", "Tasks", Str("Phase " \o ToStr(phase)))>>
    ELSE <<>>

\* the third loop of validatePhaseSlotSaturation
SaturationErrors(phaseSlots, phaseRequirements) ==
    Flatten([i \in 1..Len(phaseRequirements) |->
        SaturationError(phaseRequirements[i].k, phaseRequirements[i].v,
                        GetOrZero(phaseSlots, phaseRequirements[i].k))])

validatePhaseSlotSaturation(tasks, workers) ==
    IF SaturationThrows(tasks, workers) THEN [threw |-> TRUE, errors |-> <<>>]
    ELSE [threw |-> FALSE,
          errors |-> SaturationErrors(PhaseSlots(workers, <<>>), PhaseRequirements(tasks, <<>>))]

(***************************************************************************)
(* validateAllData                                                         *)
(***************************************************************************)
\* the body of the forEach over Object.entries(workSheets) for one sheet:
\* the errors it pushes, the rows as it leaves them, and whether it threw
SheetOutcome(sheetName, data, base, attrs, slots) ==
        [rows   |-> IF base = "Clients" THEN attrs.rows ELSE data,
         threw  |-> RequiredColumnsThrow(sheetName, data) \/ (base = "Workers" /\ slots.threw),
         errors |-> validateRequiredColumns(sheetName, data)
                    \o validateDuplicateIDs(sheetName, data)
                    \o (IF base = "Clients"
                        THEN validatePriorityLevel(data, sheetName) \o attrs.errors ELSE <<>>)
                    \o (IF base = "Workers" THEN slots.errors ELSE <<>>)
                    \o (IF base = "Tasks" THEN validateDuration(data, sheetName) ELSE <<>>)]

ValidateSheet(sheet) ==
    SheetOutcome(sheet.name, sheet.rows, getBaseSheetName(sheet.name),
                 validateAttributesJSON(sheet.rows, sheet.name),
                 validateAvailableSlots(sheet.rows, sheet.name))

\* the forEach over the sheets from sheet i on; a throw ends it and leaves
\* the later sheets untouched
RECURSIVE ValidateSheets(_, _, _), AfterSheet(_, _, _, _)
ValidateSheets(sheets, i, errors) ==
    IF i > Len(sheets) THEN [sheets |-> sheets, errors |-> errors, threw |-> FALSE]
    ELSE AfterSheet(sheets, i, errors, ValidateSheet(sheets[i]))

\* the forEach after the body has run on sheet i with outcome r
AfterSheet(sheets, i, errors, r) ==
    IF r.threw THEN [sheets |-> sheets, errors |-> errors, threw |-> TRUE]
    ELSE ValidateSheets([sheets EXCEPT ![i].rows = r.rows], i + 1, errors \o r.errors)

\* Object.keys(workSheets).find(name => getBaseSheetName(name) === base):
\* the index of the first such sheet, 0 when there is none
FindSheet(sheets, base) ==
    IF \E i \in 1..Len(sheets) : getBaseSheetName(sheets[i].name) = base
    THEN CHOOSE i \in 1..Len(sheets) :
            /\ getBaseSheetName(sheets[i].name) = base
            /\ \A j \in 1..(i - 1) : getBaseSheetName(sheets[j].name) # base
    ELSE 0

\* Retag without the assignment: the errors keep the role name the validator
\* gave them
RetagKept(errors, name) == errors

\* errors.forEach(error => { error.sheetName = name })
Retag(errors, name) == [k \in 1..Len(errors) |-> [errors[k] EXCEPT !.sheetName = name]]

Threw == [threw |-> TRUE, isValid |-> FALSE, errors |-> <<>>]

\* CrossSheetResult with the task-reference check run whenever a Clients
\* sheet exists, against no task when there is no Tasks sheet
CrossSheetResultUnguarded(sheets, allErrors, c, w, t, overload, saturation) ==
    LET hasC == c # 0 /\ sheets[c].name # ""
        hasW == w # 0 /\ sheets[w].name # ""
        hasT == t # 0 /\ sheets[t].name # ""
        errors == allErrors
                  \o (IF hasC
                      THEN Retag(validateTaskReferences(sheets[c].rows,
                                    IF hasT THEN sheets[t].rows ELSE <<>>), sheets[c].name)
                      ELSE <<>>)
                  \o (IF hasW THEN Retag(overload.errors, sheets[w].name) ELSE <<>>)
                  \o (IF hasW /\ hasT
                      THEN Retag(validateSkillCoverage(sheets[w].rows, sheets[t].rows), sheets[t].name)
                      ELSE <<>>)
                  \o (IF hasW /\ hasT
                      THEN Retag(validateMaxConcurrency(sheets[t].rows, sheets[w].rows), sheets[t].name)
                      ELSE <<>>)
                  \o (IF hasW /\ hasT THEN Retag(saturation.errors, sheets[t].name) ELSE <<>>)
                  \o (IF hasC THEN validateCircularCoRunGroups(sheets[c].rows) ELSE <<>>)
                  \o (IF hasT THEN validateConflictingRules(sheets[t].rows) ELSE <<>>)
    IN  IF overload.threw \/ saturation.threw THEN Threw
        ELSE [threw |-> FALSE, isValid |-> Len(errors) = 0, errors |-> errors]

\* the cross-sheet part of validateAllData, given the sheets c, w and t found
\* for the three kinds (0 when absent) and what the two validators that can
\* throw returned
CrossSheetResult(sheets, allErrors, c, w, t, overload, saturation) ==
    LET hasC == c # 0 /\ sheets[c].name # ""
        hasW == w # 0 /\ sheets[w].name # ""
        hasT == t # 0 /\ sheets[t].name # ""
        errors == allErrors
                  \o (IF hasC /\ hasT
                      THEN Retag(validateTaskReferences(sheets[c].rows, sheets[t].rows), sheets[c].name)
                      ELSE <<>>)
                  \o (IF hasW THEN Retag(overload.errors, sheets[w].name) ELSE <<>>)
                  \o (IF hasW /\ hasT
                      THEN Retag(validateSkillCoverage(sheets[w].rows, sheets[t].rows), sheets[t].name)
                      ELSE <<>>)
                  \o (IF hasW /\ hasT
                      THEN Retag(validateMaxConcurrency(sheets[t].rows, sheets[w].rows), sheets[t].name)
                      ELSE <<>>)
                  \o (IF hasW /\ hasT THEN Retag(saturation.errors, sheets[t].name) ELSE <<>>)
                  \o (IF hasC THEN validateCircularCoRunGroups(sheets[c].rows) ELSE <<>>)
                  \o (IF hasT THEN validateConflictingRules(sheets[t].rows) ELSE <<>>)
    IN  IF overload.threw \/ saturation.threw THEN Threw
        ELSE [threw |-> FALSE, isValid |-> Len(errors) = 0, errors |-> errors]

\* the cross-sheet validators on the sheets c, w and t
CrossSheetOn(sheets, allErrors, c, w, t) ==
    CrossSheetResult(sheets, allErrors, c, w, t,
        IF w # 0 /\ sheets[w].name # "" THEN validateWorkerOverload(sheets[w].rows)
        ELSE [threw |-> FALSE, errors |-> <<>>],
        IF w # 0 /\ sheets[w].name # "" /\ t # 0 /\ sheets[t].name # ""
        THEN validatePhaseSlotSaturation(sheets[t].rows, sheets[w].rows)
        ELSE [threw |-> FALSE, errors |-> <<>>])

\* the cross-sheet part of validateAllData on the sheets the first part left
CrossSheet(sheets, allErrors) ==
    CrossSheetOn(sheets, allErrors, FindSheet(sheets, "Clients"),
                 FindSheet(sheets, "Workers"), FindSheet(sheets, "Tasks"))

\* AllDataResult with isValid computed from the per-sheet errors alone,
\* before the cross-sheet errors are pushed
AllDataResultValidEarly(first) ==
    [sheets |-> first.sheets,
     result |-> IF first.threw THEN Threw
                ELSE IF CrossSheet(first.sheets, first.errors).threw THEN Threw
                ELSE [CrossSheet(first.sheets, first.errors) EXCEPT !.isValid = (Len(first.errors) = 0)]]

\* the result of validateAllData after the per-sheet part `first`
AllDataResult(first) ==
    [sheets |-> first.sheets,
     result |-> IF first.threw THEN Threw ELSE CrossSheet(first.sheets, first.errors)]

\* validateAllData(workSheets): the result, and the sheets as the run leaves
\* them (rows are repaired in place, also by a run that throws later)
validateAllData(sheets) == AllDataResult(ValidateSheets(sheets, 1, <<>>))

(***************************************************************************)
(* Specification of the list parsers: a text is drawn and each parser is   *)
(* applied to it.                                                          *)
(***************************************************************************)
MaxLen == 3

ParseAlphabet == {"0", "2", "5", "-", ",", "[", "]", " "}

RECURSIVE TextsUpTo(_)
TextsUpTo(n) ==
    IF n = 0 THEN {""}
    ELSE LET S == TextsUpTo(n - 1) IN S \cup {s \o c : s \in S, c \in ParseAlphabet}

ParseExamples ==
    {"1-3", "[2,4,5]", "2,4,5", "not-a-number", "[2,-4,5]", "[-1]", "5", "null", "{}",
     "abc", "[1,2", "10-12", " [1, 2] ", "1 - 3", "2, 4,x", "true", "\"ab\"", "[\"a\"]"}

ParseInputs == TextsUpTo(MaxLen) \cup ParseExamples

NoSheets == <<>>
NoResult == [threw |-> FALSE, isValid |-> TRUE, errors |-> <<>>]
NoOutput == [threw |-> FALSE, errors |-> <<>>]

InitParse ==
    /\ pInput \in ParseInputs
    /\ pStage = "input"
    /\ pOut = Undef
    /\ workSheets = NoSheets
    /\ before = NoSheets
    /\ validationResult = NoResult
    /\ prevResult = NoResult
    /\ runs = 0
    /\ fn = "none"
    /\ fnArg = 0
    /\ fnOut = NoOutput
    /\ ui = <<>>
    /\ mp = <<>>

ApplyParseNumberArray ==
    /\ pStage = "input"
    /\ pStage' = "parseNumberArray"
    /\ pOut' = parseNumberArray(Str(pInput))
    /\ UNCHANGED <<workSheets, validationResult, prevResult, runs, before, fn, fnArg, fnOut, pInput, ui, mp>>

ApplyNormalizePreferredPhases ==
    /\ pStage = "input"
    /\ pStage' = "normalizePreferredPhases"
    /\ pOut' = normalizePreferredPhases(pInput)
    /\ UNCHANGED <<workSheets, validationResult, prevResult, runs, before, fn, fnArg, fnOut, pInput, ui, mp>>

NextParse == ApplyParseNumberArray \/ ApplyNormalizePreferredPhases

SpecParse == InitParse /\ [][NextParse]_vars

(***************************************************************************)
(* Specification of validateAllData: a snapshot is drawn and the function  *)
(* is run on it, again and again on the same object.                       *)
(*                                                                         *)
(* The snapshots are the workbook of the repository's test data (made      *)
(* valid), with up to two of its cells overwritten, and a few workbooks of *)
(* another shape (sheets absent, renamed, doubled, empty, a column absent) *)
(* with up to one cell overwritten.                                        *)
(***************************************************************************)
MaxRuns == 2
MaxNum  == 3

Row(cols, vals) == [c \in {cols[k] : k \in 1..Len(cols)} |->
                        vals[CHOOSE k \in 1..Len(cols) : cols[k] = c]]

Sheet(name, rows) == [name |-> name, rows |-> rows]

BaseClients ==
    << Row(ClientColumns, <<Str("C001"), Str("Client A"), Num(3), Str("T001,T002"), Str("Group1"), Str("{\"region\": \"US\"}")>>),
       Row(ClientColumns, <<Str("C002"), Str("Client B"), Num(2), Str("T002"), Str("Group2"), Str("{\"region\": \"EU\"}")>>),
       Row(ClientColumns, <<Str("C003"), Str("Client C"), Num(4), Str("T001"), Str("Group3"), Str("{\"region\": \"ASIA\"}")>>) >>

BaseWorkers ==
    << Row(WorkerColumns, <<Str("W001"), Str("Worker A"), Str("Skill1,Skill2"), Str("[1,2,3]"), Num(2), Str("Group1"), Str("Senior")>>),
       Row(WorkerColumns, <<Str("W002"), Str("Worker B"), Str("Skill2,Skill3"), Str("[2,3,4]"), Num(1), Str("Group2"), Str("Junior")>>) >>

BaseTasks ==
    << Row(TaskColumns, <<Str("T001"), Str("Task A"), Str("Category1"), Num(1), Str("Skill1"), Str("[1,2]"), Num(1)>>),
       Row(TaskColumns, <<Str("T002"), Str("Task B"), Str("Category2"), Num(1), Str("Skill2"), Str("[2,3]"), Num(1)>>) >>

BaseWorkbook ==
    << Sheet("Clients 1", BaseClients), Sheet("Worker 1", BaseWorkers), Sheet("Tasks 1", BaseTasks) >>

\* the row without the key col
DropColumn(row, col) == [c \in (DOMAIN row) \ {col} |-> row[c]]

ShapedWorkbooks ==
    { << Sheet("Clients 1", BaseClients), Sheet("Worker 1", BaseWorkers) >>,
      << Sheet("Clients 1", BaseClients), Sheet("Tasks 1", BaseTasks) >>,
      << Sheet("Worker 1", BaseWorkers), Sheet("Tasks 1", BaseTasks) >>,
      << Sheet("Notes", BaseClients), Sheet("  CLIENTS", BaseClients),
         Sheet("workers  2", BaseWorkers), Sheet("Task list", BaseTasks) >>,
      << Sheet("Tasks 1", BaseTasks), Sheet("Worker 1", BaseWorkers),
         Sheet("Clients 1", BaseClients), Sheet("Workers 2", BaseWorkers) >>,
      << Sheet("Clients 1", <<>>), Sheet("Worker 1", BaseWorkers), Sheet("Tasks 1", <<>>) >>,
      << Sheet("Clients 1", [i \in 1..3 |-> DropColumn(BaseClients[i], "AttributesJSON")]),
         Sheet("Worker 1", [i \in 1..2 |-> DropColumn(BaseWorkers[i], "AvailableSlots")]),
         Sheet("Tasks 1", [i \in 1..2 |-> DropColumn(BaseTasks[i], "PreferredPhases")]) >>,
      << Sheet("Clients 1", [i \in 1..3 |->
                DropColumn(DropColumn(BaseClients[i], "GroupTag"), "PriorityLevel")]),
         Sheet("Worker 1", BaseWorkers), Sheet("Tasks 1", BaseTasks) >>,
      << Sheet("Clients 1", BaseClients), Sheet("constructor", BaseTasks),
         Sheet("Worker 1", BaseWorkers) >>,
      << Sheet("Summary", BaseWorkers), Sheet("Clients 1", BaseClients),
         Sheet("My Tasks", BaseTasks), Sheet("Tasks 1", BaseTasks) >> }

Numbers == {Num(k) : k \in -1..MaxNum}

\* the values a cell of the column is overwritten with
CellValues(col) ==
    CASE col \in {"ClientID", "WorkerID", "TaskID"} ->
            {Str("C001"), Str("W001"), Str("T001"), Str(""), Num(0), Num(101), Str("101")}
      [] col = "PriorityLevel" -> {Num(0), Num(1), Num(5), Num(6), Str("abc"), Str("4")}
      [] col = "RequestedTaskIDs" -> {Str("T001"), Str("T001,T999"), Str(""), Str("101")}
      [] col = "AttributesJSON" ->
            {Str("vip customer"), Str("{bad json"), Str("Note: call back"), Str("see {x}"),
             Str("a [b]"), Str("  hi there  "), Str("say \"hi\""), Str("5"), Str(""), Obj}
      [] col = "Skills" -> {Str("Skill1"), Str("Skill9"), Str("")}
      [] col = "AvailableSlots" ->
            {Str("1-3"), Str("1,2,3"), Str("[1,1]"), Str("5"), Str("null"), Str("{}"),
             Str("not-a-number"), Str("abc"), Str("[1,2"), Str(""), Str("[\"x\"]"),
             Arr(<<Num(1), Num(2)>>), Num(2)}
      [] col = "MaxLoadPerPhase" -> Numbers \cup {Str("abc")}
      [] col = "Duration" -> Numbers \cup {Str("abc")}
      [] col = "RequiredSkills" -> {Str("Skill3"), Str("Skill9"), Str("Skill1,Skill3")}
      [] col = "PreferredPhases" ->
            {Str("1-3"), Str("[1]"), Str("[1,1]"), Str("2,4,5"), Str("[5]"), Str("5"), Str("")}
      [] col = "MaxConcurrent" -> Numbers
      [] OTHER -> {Str("")}

\* the cells of a workbook: [sheet, row, col]
Cells(wb) ==
    UNION {UNION {{[sheet |-> i, row |-> j, col |-> c] : c \in DOMAIN wb[i].rows[j]}
                    : j \in 1..Len(wb[i].rows)} : i \in 1..Len(wb)}

\* the cells of the columns cols in the rows rws of sheet i of the base workbook
Pick(i, rws, cols) == {[sheet |-> i, row |-> j, col |-> c] : j \in rws, c \in cols}

OverwritesOf(cells) ==
    UNION {{[cell |-> cell, val |-> v] : v \in CellValues(cell.col)} : cell \in cells}

Overwrite(wb, o) == [wb EXCEPT ![o.cell.sheet].rows[o.cell.row][o.cell.col] = o.val]

\* the pairs of cells of the base workbook that are overwritten together
CellPairs ==
    { <<Pick(1, 1..3, {"ClientID"}), Pick(1, 1..3, {"ClientID"})>>,
      <<Pick(2, {1}, {"AvailableSlots", "MaxLoadPerPhase"}),
        Pick(3, {1}, {"PreferredPhases", "Duration", "MaxConcurrent"})>>,
      <<Pick(2, {1}, {"AvailableSlots"}), Pick(2, 1..2, {"MaxLoadPerPhase"})>>,
      <<Pick(3, {1}, {"PreferredPhases"}), Pick(3, {2}, {"PreferredPhases", "Duration"})>>,
      <<Pick(1, {1}, {"AttributesJSON"}),
        Pick(1, {2}, {"AttributesJSON"}) \cup Pick(2, {1}, {"AvailableSlots"})>>,
      <<Pick(2, 1..2, {"Skills"}), Pick(3, {1}, {"RequiredSkills", "MaxConcurrent"})>>,
      <<Pick(1, {1}, {"RequestedTaskIDs"}), Pick(3, 1..2, {"TaskID"})>>,
      <<Pick(3, {1}, {"RequiredSkills"}), Pick(3, {1}, {"MaxConcurrent"})>>,
      <<Pick(1, {1}, {"PriorityLevel"}), Pick(1, {2}, {"PriorityLevel"})>> }

Workbooks ==
    {BaseWorkbook}
    \cup {Overwrite(BaseWorkbook, o) : o \in OverwritesOf(Cells(BaseWorkbook))}
    \cup UNION {{Overwrite(Overwrite(BaseWorkbook, o1), o2) :
                    o1 \in OverwritesOf(pr[1]), o2 \in OverwritesOf(pr[2])} : pr \in CellPairs}
    \cup ShapedWorkbooks
    \cup UNION {{Overwrite(wb, o) : o \in OverwritesOf(Cells(wb))} : wb \in ShapedWorkbooks}

InitValidate ==
    /\ workSheets \in Workbooks
    /\ before = workSheets
    /\ validationResult = NoResult
    /\ prevResult = NoResult
    /\ runs = 0
    /\ fn = "none"
    /\ fnArg = 0
    /\ fnOut = NoOutput
    /\ pInput = ""
    /\ pStage = "input"
    /\ pOut = Undef
    /\ ui = <<>>
    /\ mp = <<>>

\* one call validateAllData(workSheets) on the current snapshot object
Validate ==
    /\ runs < MaxRuns
    /\ \E r \in {validateAllData(workSheets)} :
        /\ workSheets' = r.sheets
        /\ validationResult' = r.result
    /\ before' = workSheets
    /\ prevResult' = validationResult
    /\ runs' = runs + 1
    /\ UNCHANGED <<fn, fnArg, fnOut, pInput, pStage, pOut, ui, mp>>

NextValidate == Validate

SpecValidate == InitValidate /\ [][NextValidate]_vars

(***************************************************************************)
(* Specification of the single validators: a snapshot is drawn and one     *)
(* exported validator is applied to a sheet of it (the cross-sheet ones to *)
(* the first sheets of their kinds, as validateAllData calls them).        *)
(***************************************************************************)
Applied(name, i, out) ==
    /\ fn = "none"
    /\ fn' = name
    /\ fnArg' = i
    /\ fnOut' = out
    /\ before' = workSheets
    /\ UNCHANGED <<validationResult, prevResult, runs, pInput, pStage, pOut, ui, mp>>

\* validateDuplicateIDs(sheetName, data) on sheet i
CheckDuplicateIDs ==
    \E i \in 1..Len(workSheets) :
        /\ Applied("validateDuplicateIDs", i,
                   [threw |-> FALSE,
                    errors |-> validateDuplicateIDs(workSheets[i].name, workSheets[i].rows)])
        /\ UNCHANGED workSheets

\* validateAttributesJSON(data, sheetName) on sheet i; the rows are
\* repaired in place
CheckAttributesJSON ==
    \E i \in 1..Len(workSheets) :
        \E r \in {validateAttributesJSON(workSheets[i].rows, workSheets[i].name)} :
            /\ Applied("validateAttributesJSON", i, [threw |-> FALSE, errors |-> r.errors])
            /\ workSheets' = [workSheets EXCEPT ![i].rows = r.rows]

\* validatePhaseSlotSaturation(tasks, workers) on the first Tasks and the
\* first Workers sheet
CheckPhaseSlotSaturation ==
    /\ fn = "none"
    /\ FindSheet(workSheets, "Workers") # 0
    /\ FindSheet(workSheets, "Tasks") # 0
    /\ Applied("validatePhaseSlotSaturation", FindSheet(workSheets, "Tasks"),
               validatePhaseSlotSaturation(workSheets[FindSheet(workSheets, "Tasks")].rows,
                                           workSheets[FindSheet(workSheets, "Workers")].rows))
    /\ UNCHANGED workSheets

\* validateRequiredColumns(sheetName, data) on sheet i
CheckRequiredColumns ==
    \E i \in 1..Len(workSheets) :
        /\ Applied("validateRequiredColumns", i,
                   [threw |-> RequiredColumnsThrow(workSheets[i].name, workSheets[i].rows),
                    errors |-> validateRequiredColumns(workSheets[i].name, workSheets[i].rows)])
        /\ UNCHANGED workSheets

\* validatePriorityLevel(data, sheetName) on sheet i
CheckPriorityLevel ==
    \E i \in 1..Len(workSheets) :
        /\ Applied("validatePriorityLevel", i,
                   [threw |-> FALSE,
                    errors |-> validatePriorityLevel(workSheets[i].rows, workSheets[i].name)])
        /\ UNCHANGED workSheets

\* validateDuration(data, sheetName) on sheet i
CheckDuration ==
    \E i \in 1..Len(workSheets) :
        /\ Applied("validateDuration", i,
                   [threw |-> FALSE,
                    errors |-> validateDuration(workSheets[i].rows, workSheets[i].name)])
        /\ UNCHANGED workSheets

\* validateAvailableSlots(data, sheetName) on sheet i
CheckAvailableSlots ==
    \E i \in 1..Len(workSheets) :
        /\ Applied("validateAvailableSlots", i,
                   validateAvailableSlots(workSheets[i].rows, workSheets[i].name))
        /\ UNCHANGED workSheets

\* validateTaskReferences(clients, tasks) on the first Clients and the first
\* Tasks sheet
CheckTaskReferences ==
    /\ fn = "none"
    /\ FindSheet(workSheets, "Clients") # 0
    /\ FindSheet(workSheets, "Tasks") # 0
    /\ Applied("validateTaskReferences", FindSheet(workSheets, "Clients"),
               [threw |-> FALSE,
                errors |-> validateTaskReferences(workSheets[FindSheet(workSheets, "Clients")].rows,
                                                  workSheets[FindSheet(workSheets, "Tasks")].rows)])
    /\ UNCHANGED workSheets

\* validateWorkerOverload(workers) on the first Workers sheet
CheckWorkerOverload ==
    /\ fn = "none"
    /\ FindSheet(workSheets, "Workers") # 0
    /\ Applied("validateWorkerOverload", FindSheet(workSheets, "Workers"),
               validateWorkerOverload(workSheets[FindSheet(workSheets, "Workers")].rows))
    /\ UNCHANGED workSheets

\* validateSkillCoverage(workers, tasks) on the first Workers and the first
\* Tasks sheet
CheckSkillCoverage ==
    /\ fn = "none"
    /\ FindSheet(workSheets, "Workers") # 0
    /\ FindSheet(workSheets, "Tasks") # 0
    /\ Applied("validateSkillCoverage", FindSheet(workSheets, "Tasks"),
               [threw |-> FALSE,
                errors |-> validateSkillCoverage(workSheets[FindSheet(workSheets, "Workers")].rows,
                                                 workSheets[FindSheet(workSheets, "Tasks")].rows)])
    /\ UNCHANGED workSheets

\* validateMaxConcurrency(tasks, workers) on the first Tasks and the first
\* Workers sheet
CheckMaxConcurrency ==
    /\ fn = "none"
    /\ FindSheet(workSheets, "Workers") # 0
    /\ FindSheet(workSheets, "Tasks") # 0
    /\ Applied("validateMaxConcurrency", FindSheet(workSheets, "Tasks"),
               [threw |-> FALSE,
                errors |-> validateMaxConcurrency(workSheets[FindSheet(workSheets, "Tasks")].rows,
                                                  workSheets[FindSheet(workSheets, "Workers")].rows)])
    /\ UNCHANGED workSheets

NextChecks ==
    \/ CheckDuplicateIDs \/ CheckAttributesJSON \/ CheckPhaseSlotSaturation
    \/ CheckRequiredColumns \/ CheckPriorityLevel \/ CheckDuration \/ CheckAvailableSlots
    \/ CheckTaskReferences \/ CheckWorkerOverload \/ CheckSkillCoverage \/ CheckMaxConcurrency

SpecChecks == InitValidate /\ [][NextChecks]_vars

(***************************************************************************)
(* app/page.tsx and components/DataTable.tsx: the page.                    *)
(*                                                                         *)
(* ui.filteredRows maps sheet names to the rows of the last search,        *)
(* ui.tab is the value of the Tabs, ui.tableKey the key of the mounted     *)
(* table ("" when none), ui.localData / editingCell / editValue the state  *)
(* of that table, ui.saved the cell whose save called onDataChange in the  *)
(* last event (<<>> when it did not).  Row indexes count from 1 here.      *)
(***************************************************************************)
MaxChanges == 2

SheetNames(ws) == {ws[i].name : i \in 1..Len(ws)}
RowsOf(ws, name) == ws[CHOOSE i \in 1..Len(ws) : ws[i].name = name].rows

\* parseWorkbookToJson: wb holds the rows as sheet_to_json delivers them
parseWorkbookToJson(wb) ==
    [i \in 1..Len(wb) |->
        LET cleaned == [j \in 1..Len(wb[i].rows) |->
                          [c \in {k \in DOMAIN wb[i].rows[j] : ~StartsWith(k, "__EMPTY")} |->
                              wb[i].rows[j][c]]]
        IN  IF Includes(ToLowerCase(wb[i].name), "task")
            THEN Sheet(wb[i].name,
                       [j \in 1..Len(cleaned) |->
                          LET p == Get(cleaned[j], "PreferredPhases") IN
                          IF Truthy(p) /\ p.t = "str"
                          THEN [cleaned[j] EXCEPT !["PreferredPhases"] =
                                    Str(JSONStringify(normalizePreferredPhases(p.s)))]
                          ELSE cleaned[j]])
            ELSE Sheet(wb[i].name, cleaned)]

\* useEffectValidate with the validation left out: the result stays empty
useEffectKeepsResult(sheets) == [sheets |-> sheets, result |-> NoResult]

\* useEffect(..., [workSheets]): validateAllData(workSheets), setValidationResult
useEffectValidate(sheets) == validateAllData(sheets)

\* handleDataChange: first is validateAllData(updatedWorkSheets); the effect
\* then runs on the sheets it was given (again an exception when it threw)
handleDataChange(first) ==
    IF first.result.threw THEN first ELSE useEffectValidate(first.sheets)

\* shouldShowFiltered of the table rendering (the search query of a sheet
\* that has filter results is the text that was searched)
shouldShowFiltered(filteredRows, name) ==
    name \in DOMAIN filteredRows /\ Len(filteredRows[name]) > 0

\* the data prop of the table of sheet name
TableData(ws, filteredRows, name) ==
    IF shouldShowFiltered(filteredRows, name) THEN filteredRows[name] ELSE RowsOf(ws, name)

\* the key of the table of the active tab; "" when no tab content is shown
TableKey(ws, filteredRows, name) ==
    IF name \notin SheetNames(ws) THEN ""
    ELSE IF shouldShowFiltered(filteredRows, name) THEN "filtered-" \o name
    ELSE "unfiltered-" \o name

\* the page after a render: a table whose key is new is mounted afresh
\* (useState(data) reads the data prop at mount only)
Rendered(ws, filteredRows, tab, u) ==
    IF TableKey(ws, filteredRows, tab) = u.tableKey
    THEN [u EXCEPT !.filteredRows = filteredRows, !.tab = tab]
    ELSE [filteredRows |-> filteredRows, tab |-> tab,
          tableKey |-> TableKey(ws, filteredRows, tab),
          localData |-> IF tab \in SheetNames(ws) THEN TableData(ws, filteredRows, tab) ELSE <<>>,
          editingCell |-> <<>>, editValue |-> "", saved |-> u.saved]

\* convertedValue of handleSave
ConvertedValue(column, originalValue, editValue) ==
    IF column = "AttributesJSON" THEN
        IF /\ ~StartsWith(Trim(editValue), "{")
           /\ ~StartsWith(Trim(editValue), "[")
           /\ ~Includes(Trim(editValue), ":")
        THEN Str(MessageJSON(Trim(editValue)))
        ELSE Str(Trim(editValue))
    ELSE IF column = "PreferredPhases" THEN
        Str(JSONStringify(normalizePreferredPhases(editValue)))
    ELSE IF originalValue.t \in {"num", "nan"} THEN StrToNumber(editValue)
    ELSE IF originalValue.t = "bool" THEN Bool(ToLowerCase(editValue) = "true")
    ELSE IF originalValue.t = "arr" /\ JSONParse(editValue).ok THEN JSONParse(editValue).v
    ELSE Str(editValue)

\* newData of handleSave: a copy of localData with the cell replaced
handleSave(u) ==
    LET row == u.localData[u.editingCell.rowIndex]
        column == u.editingCell.column
    IN  [u.localData EXCEPT ![u.editingCell.rowIndex] =
            [c \in DOMAIN row \cup {column} |->
                IF c = column THEN ConvertedValue(column, Get(row, column), u.editValue)
                ELSE row[c]]]

\* the sheets of the two uploaded workbooks, as the spreadsheet reader
\* delivers them (defval "", a number cell as a number)
UploadedWorkbooks ==
  { << Sheet("Tasks 1",
         << Row(TaskColumns, <<Str("T001"), Str("Task A"), Str("Category1"), Num(1), Str("Skill1"), Str("1-3"), Num(1)>>),
            Row(TaskColumns, <<Str("T002"), Str("Task B"), Str("Category2"), Num(2), Str("Skill2"), Str("2,4,5"), Num(1)>>) >>),
       Sheet("Clients 1",
         << Row(ClientColumns \o <<"__EMPTY">>,
                <<Str("C001"), Str("Client A"), Num(3), Str("T001"), Str("Group1"), Str("vip customer"), Str("")>>) >>) >>,
    << Sheet("Tasks 1",
         << Row(TaskColumns, <<Str("T001"), Str("Task A"), Str("Category1"), Num(1), Str("Skill1"), Str(""), Num(1)>>),
            Row(TaskColumns, <<Str("T002"), Str("Task B"), Str("Category2"), Num(1), Str("Skill2"), Num(3), Num(1)>>),
            Row(TaskColumns, <<Str("T003"), Str("Task C"), Str("Category1"), Num(1), Str("Skill1"), Str(" [1, 2] "), Num(1)>>) >>) >> }

\* allRows.filter(...) of handleNaturalSearch, for two filter functions:
\* one keeps the first row, one all rows but the first
FilterRows(filter, allRows) ==
    IF allRows = <<>> THEN <<>>
    ELSE IF filter = "first" THEN <<allRows[1]>>
    ELSE Tail(allRows)

\* the page before any upload: no filter results, no tab, no table mounted
InitUI ==
    /\ workSheets = NoSheets
    /\ before = NoSheets
    /\ validationResult = NoResult
    /\ prevResult = NoResult
    /\ runs = 0
    /\ fn = "none"
    /\ fnArg = 0
    /\ fnOut = NoOutput
    /\ pInput = ""
    /\ pStage = "input"
    /\ pOut = Undef
    /\ ui = [filteredRows |-> <<>>, tab |-> "", tableKey |-> "", localData |-> <<>>,
             editingCell |-> <<>>, editValue |-> "", saved |-> <<>>]
    /\ mp = <<>>

\* the state after an event: r is [sheets, result] and u the page before
\* the render
Shown(event, r, u) ==
    /\ workSheets' = r.sheets
    /\ validationResult' = r.result
    /\ ui' = Rendered(r.sheets, u.filteredRows, u.tab, u)
    /\ fn' = event
    /\ before' = workSheets
    /\ UNCHANGED <<prevResult, fnArg, fnOut, pInput, pStage, pOut, mp>>

\* an event that leaves workSheets alone
ShownSame(event, u) ==
    /\ Shown(event, [sheets |-> workSheets, result |-> validationResult], u)
    /\ UNCHANGED runs

\* The events below need the page up (a validateAllData that threw in the
\* effect took it down).  Those outside the edit box need no cell in edit: a
\* click outside the edit box blurs it first.

\* handleFileChange / handleLoadSample: parseWorkbookToJson, then the effect
Upload ==
    /\ ~validationResult.threw
    /\ ui.editingCell = <<>>
    /\ runs < MaxChanges
    /\ runs' = runs + 1
    /\ \E wb \in UploadedWorkbooks :
        \E r \in {useEffectValidate(parseWorkbookToJson(wb))} :
            Shown("upload", r,
                  [ui EXCEPT !.saved = <<>>,
                             !.tab = IF workSheets = NoSheets THEN wb[1].name ELSE ui.tab])

\* Tabs onValueChange
SelectTab ==
    /\ ~validationResult.threw
    /\ ui.editingCell = <<>>
    /\ \E name \in SheetNames(workSheets) \ {ui.tab} :
        ShownSame("tab", [ui EXCEPT !.saved = <<>>, !.tab = name])

\* handleNaturalSearch(sheetName): the results of the sheet are deleted,
\* rendered, and then set to the rows the filter keeps
Search ==
    /\ ~validationResult.threw
    /\ ui.editingCell = <<>>
    /\ ui.tab \in SheetNames(workSheets)
    /\ \E filter \in {"first", "rest"} :
        ShownSame("search",
            [Rendered(workSheets,
                      [n \in DOMAIN ui.filteredRows \ {ui.tab} |-> ui.filteredRows[n]],
                      ui.tab, ui)
             EXCEPT !.saved = <<>>,
                    !.filteredRows = [n \in DOMAIN ui.filteredRows \cup {ui.tab} |->
                                        IF n = ui.tab
                                        THEN FilterRows(filter, RowsOf(workSheets, ui.tab))
                                        ELSE ui.filteredRows[n]]])

\* the Clear button of the search box, shown while the sheet has filter
\* results
ClearFilter ==
    /\ ~validationResult.threw
    /\ ui.editingCell = <<>>
    /\ ui.tab \in SheetNames(workSheets)
    /\ shouldShowFiltered(ui.filteredRows, ui.tab)
    /\ ShownSame("clear",
            [ui EXCEPT !.saved = <<>>,
                       !.filteredRows = [n \in DOMAIN ui.filteredRows \ {ui.tab} |->
                                            ui.filteredRows[n]]])

\* handleCellClick(rowIndex, column, row[column]) on a cell of the table:
\* the rows shown are localData, the columns the keys of data[0]
CellClick ==
    /\ ~validationResult.threw
    /\ ui.editingCell = <<>>
    /\ ui.tableKey # ""
    /\ TableData(workSheets, ui.filteredRows, ui.tab) # <<>>
    /\ \E rowIndex \in 1..Len(ui.localData) :
        \E column \in {"PreferredPhases", "Duration", "AttributesJSON"} \cap DOMAIN TableData(workSheets, ui.filteredRows, ui.tab)[1] :
            ShownSame("click",
                [ui EXCEPT !.saved = <<>>,
                           !.editingCell = [rowIndex |-> rowIndex, column |-> column],
                           !.editValue = IF Truthy(Get(ui.localData[rowIndex], column))
                                         THEN ToStr(Get(ui.localData[rowIndex], column))
                                         ELSE ""])

\* onChange of the edit box
TypeText ==
    /\ ~validationResult.threw
    /\ ui.editingCell # <<>>
    /\ \E text \in {"1-3", "note"} \ {ui.editValue} :
        ShownSame("type", [ui EXCEPT !.editValue = text])

\* handleSave for the cell being edited: setLocalData(newData),
\* onDataChange(newData) = handleDataChange(name, newData), which stores
\* { ...workSheets, [name]: newData } (name is the sheet of the mounted
\* table), the effect, and the end of the editing state.  newData is the
\* array stored in workSheets.
SaveEdit(event) ==
    /\ runs < MaxChanges
    /\ runs' = runs + 1
    /\ \E r \in {handleDataChange(validateAllData(
                    [i \in 1..Len(workSheets) |->
                        IF workSheets[i].name = ui.tab
                        THEN Sheet(ui.tab, handleSave(ui))
                        ELSE workSheets[i]]))} :
        Shown(event, r,
              [ui EXCEPT !.localData = RowsOf(r.sheets, ui.tab),
                         !.editingCell = <<>>,
                         !.editValue = "",
                         !.saved = [sheet |-> ui.tab, rowIndex |-> ui.editingCell.rowIndex,
                                    column |-> ui.editingCell.column]])

\* onBlur of the edit box (a click or a Tab key that takes the focus away,
\* the save button included)
InputBlur == ~validationResult.threw /\ ui.editingCell # <<>> /\ SaveEdit("blur")

\* handleKeyPress, Enter
KeyEnter == ~validationResult.threw /\ ui.editingCell # <<>> /\ SaveEdit("enter")

\* handleKeyPress, Escape: handleCancel
KeyEscape ==
    /\ ~validationResult.threw
    /\ ui.editingCell # <<>>
    /\ ShownSame("escape", [ui EXCEPT !.editingCell = <<>>, !.editValue = "", !.saved = <<>>])

\* the cancel button is pressed: the focus leaves the edit box first, so
\* its onBlur runs handleSave; handleCancel then finds nothing to clear
ClickCancel == ~validationResult.threw /\ ui.editingCell # <<>> /\ SaveEdit("cancel")

NextUI ==
    \/ Upload \/ SelectTab \/ Search \/ ClearFilter \/ CellClick \/ TypeText
    \/ InputBlur \/ KeyEnter \/ KeyEscape \/ ClickCancel

SpecUI == InitUI /\ [][NextUI]_vars

(***************************************************************************)
(* The row mapper (setDataForType) and its parsers.  A raw row is the      *)
(* sequence of its [key, value] pairs in key order.                        *)
(***************************************************************************)
MaxKeys == 2

parseCommaSeparated(v) ==
    IF v.t # "str" \/ Trim(v.s) = "" THEN <<>>
    ELSE LET parts == Split(v.s, ",")
             trimmed == [i \in 1..Len(parts) |-> Trim(parts[i])]
         IN  SelectSeq(trimmed, LAMBDA x : x # "")

parsePreferredPhases(v) ==
    IF v.t # "str" \/ Trim(v.s) = "" THEN Arr(<<>>)
    ELSE LET str == Trim(v.s)
             parts == [i \in 1..Len(Split(str, "-")) |-> StrToNumber(Split(str, "-")[i])]
         IN  IF StartsWith(str, "[") /\ SubSeq(str, Len(str), Len(str)) = "]" THEN
                 IF JSONParse(str).ok /\ JSONParse(str).v.t = "arr"
                 THEN Arr(SelectSeq([i \in 1..Len(JSONParse(str).v.a) |->
                                        ToNumber(JSONParse(str).v.a[i])],
                                    LAMBDA x : x.t # "nan"))
                 ELSE Arr(<<>>)
             ELSE IF /\ Includes(str, "-")
                     /\ Len(parts) = 2
                     /\ parts[1].t = "num" /\ parts[2].t = "num"
                     /\ parts[1].n <= parts[2].n
             THEN Arr(RangeArray(parts[1], parts[2]))
             ELSE IF StrToNumber(str).t = "nan" THEN Arr(<<>>)
             ELSE Arr(<<StrToNumber(str)>>)

\* the index of the first key of the row equal to expectedHeader ignoring
\* case; 0 when Object.keys(row).find(...) gives undefined
foundKeyLast(row, expectedHeader) ==
    LET hits == {i \in 1..Len(row) : ToLowerCase(row[i].key) = ToLowerCase(expectedHeader)}
    IN  IF hits = {} THEN 0 ELSE CHOOSE i \in hits : \A k \in hits : k <= i

foundKey(row, expectedHeader) ==
    LET hits == {i \in 1..Len(row) : ToLowerCase(row[i].key) = ToLowerCase(expectedHeader)}
    IN  IF hits = {} THEN 0 ELSE CHOOSE i \in hits : \A k \in hits : i <= k

\* the switch on expectedHeader: the type-specific parsing of a value that
\* is not undefined, null or ''
ParsedField(expectedHeader, value) ==
    IF value.t \in {"undef", "null"} \/ value = Str("") THEN value
    ELSE IF expectedHeader \in {"PriorityLevel", "MaxLoadPerPhase", "Duration", "MaxConcurrent"}
         THEN ToNumber(value)
    ELSE IF expectedHeader \in {"RequestedTaskIDs", "Skills"}
         THEN Arr([i \in 1..Len(parseCommaSeparated(value)) |-> Str(parseCommaSeparated(value)[i])])
    ELSE IF expectedHeader = "AvailableSlots"
         THEN Arr(SelectSeq([i \in 1..Len(parseCommaSeparated(value)) |->
                                StrToNumber(parseCommaSeparated(value)[i])],
                            LAMBDA x : x.t # "nan"))
    ELSE IF expectedHeader = "PreferredPhases" THEN parsePreferredPhases(value)
    ELSE IF expectedHeader = "AttributesJSON" /\ JSONParse(ToStr(value)).ok
         THEN JSONParse(ToStr(value)).v
    ELSE value

\* newRow of setDataForType(type, data) for one row of data
setDataForType(type, row) ==
    LET expectedHeaders == CASE type = "clients" -> ClientColumns
                             [] type = "workers" -> WorkerColumns
                             [] type = "tasks"   -> TaskColumns
    IN  [expectedHeader \in {expectedHeaders[k] : k \in 1..Len(expectedHeaders)} |->
            IF foundKey(row, expectedHeader) = 0 THEN Undef
            ELSE ParsedField(expectedHeader, row[foundKey(row, expectedHeader)].value)]

\* the raw rows handed to the mapper: up to MaxKeys distinct keys
RawRows ==
    LET RawKeys == {"ClientID", "clientid", "Skills", "SKILLS", "PreferredPhases", "Notes"}
        RawValues == {Str("1-3"), Str(""), Num(2)}
    IN  {r \in UNION {[1..n -> [key : RawKeys, value : RawValues]] : n \in 0..MaxKeys} :
            \A i, j \in 1..Len(r) : i # j => r[i].key # r[j].key}

InitMap ==
    /\ mp \in [stage : {"raw"}, type : {"clients", "workers", "tasks"},
               row : RawRows, newRow : {<<>>}]
    /\ workSheets = NoSheets
    /\ before = NoSheets
    /\ validationResult = NoResult
    /\ prevResult = NoResult
    /\ runs = 0
    /\ fn = "none"
    /\ fnArg = 0
    /\ fnOut = NoOutput
    /\ pInput = ""
    /\ pStage = "input"
    /\ pOut = Undef
    /\ ui = <<>>

\* data.map(row => ...) on one row
MapRow ==
    /\ mp.stage = "raw"
    /\ mp' = [mp EXCEPT !.stage = "mapped", !.newRow = setDataForType(mp.type, mp.row)]
    /\ UNCHANGED <<workSheets, validationResult, prevResult, runs, before, fn, fnArg, fnOut,
                   pInput, pStage, pOut, ui>>

NextMap == MapRow

SpecMap == InitMap /\ [][NextMap]_vars

(***************************************************************************)
(* Properties                                                              *)
(***************************************************************************)

\* C1: a run on a valid workbook (the three sheets with all their columns,
\* non-empty IDs unique within each sheet, every requested task an existing
\* TaskID, every numeric cell a number in range, every required skill held
\* by a worker, per-phase supply at least per-phase demand, AttributesJSON
\* valid JSON, list cells in one of the accepted encodings: range "a-b",
\* JSON array "[..]", comma list "a,b,c") returns isValid = true and no
\* error.
C1_ValidInputsPass ==
    LET RECURSIVE Sum(_, _)
        Sum(f, n) == IF n = 0 THEN 0 ELSE f[n] + Sum(f, n - 1)
        isNat(s)    == s # "" /\ SkipDigits(s, 1) > Len(s)
        dash(s)     == SkipDigits(s, 1)
        isRange(s)  == /\ dash(s) > 1 /\ dash(s) < Len(s) /\ CharAt(s, dash(s)) = "-"
                       /\ isNat(SubSeq(s, dash(s) + 1, Len(s)))
                       /\ DigitsVal(SubSeq(s, 1, dash(s) - 1)) <= DigitsVal(SubSeq(s, dash(s) + 1, Len(s)))
        isArray(s)  == /\ StartsWith(s, "[") /\ JSONParse(s).ok /\ JSONParse(s).v.t = "arr"
                       /\ \A k \in 1..Len(JSONParse(s).v.a) : JSONParse(s).v.a[k].t = "num"
        isCommas(s) == /\ Includes(s, ",")
                       /\ \A k \in 1..Len(Split(s, ",")) : isNat(Trim(Split(s, ",")[k]))
        \* the numbers a list cell stands for
        listOf(v)   == IF isRange(v.s)
                       THEN [k \in 1..(DigitsVal(SubSeq(v.s, dash(v.s) + 1, Len(v.s)))
                                        - DigitsVal(SubSeq(v.s, 1, dash(v.s) - 1)) + 1) |->
                                DigitsVal(SubSeq(v.s, 1, dash(v.s) - 1)) + k - 1]
                       ELSE IF isArray(v.s)
                       THEN [k \in 1..Len(JSONParse(v.s).v.a) |-> JSONParse(v.s).v.a[k].n]
                       ELSE [k \in 1..Len(Split(v.s, ",")) |-> DigitsVal(Trim(Split(v.s, ",")[k]))]
        isList(v)   == /\ v.t = "str"
                       /\ isRange(v.s) \/ isArray(v.s) \/ isCommas(v.s)
                       /\ \A k, l \in 1..Len(listOf(v)) : listOf(v)[k] = listOf(v)[l] => k = l
        phases(v)   == {listOf(v)[k] : k \in 1..Len(listOf(v))}
        names(v)    == {Trim(Split(v.s, ",")[k]) : k \in 1..Len(Split(v.s, ","))}
        isNum(v, lo, hi) == v.t = "num" /\ lo <= v.n /\ v.n <= hi
        ids(rows, col) ==
            /\ \A i \in 1..Len(rows) : rows[i][col].t = "str" /\ rows[i][col].s # ""
            /\ \A i, j \in 1..Len(rows) : rows[i][col] = rows[j][col] => i = j
        columns(rows, cols) ==
            \A i \in 1..Len(rows) : \A k \in 1..Len(cols) : cols[k] \in DOMAIN rows[i]
        Valid(clients, workers, tasks) ==
            /\ columns(clients, ClientColumns) /\ columns(workers, WorkerColumns)
            /\ columns(tasks, TaskColumns)
            /\ ids(clients, "ClientID") /\ ids(workers, "WorkerID") /\ ids(tasks, "TaskID")
            /\ \A i \in 1..Len(clients) :
                /\ isNum(clients[i].PriorityLevel, 1, 5)
                /\ clients[i].RequestedTaskIDs.t = "str"
                /\ names(clients[i].RequestedTaskIDs) \subseteq
                        {tasks[j].TaskID.s : j \in 1..Len(tasks)}
                /\ clients[i].AttributesJSON.t = "str"
                /\ JSONParse(clients[i].AttributesJSON.s).ok
            /\ \A i \in 1..Len(workers) :
                /\ workers[i].Skills.t = "str"
                /\ isList(workers[i].AvailableSlots)
                /\ isNum(workers[i].MaxLoadPerPhase, 1, Len(listOf(workers[i].AvailableSlots)))
            /\ \A i \in 1..Len(tasks) :
                /\ isNum(tasks[i].Duration, 1, MaxNum + 1)
                /\ tasks[i].RequiredSkills.t = "str"
                /\ "" \notin names(tasks[i].RequiredSkills)
                /\ names(tasks[i].RequiredSkills) \subseteq
                        UNION {names(workers[j].Skills) : j \in 1..Len(workers)}
                /\ isList(tasks[i].PreferredPhases)
                /\ isNum(tasks[i].MaxConcurrent, 1,
                         Cardinality({j \in 1..Len(workers) :
                            names(workers[j].Skills) \cap names(tasks[i].RequiredSkills) # {}}))
            /\ \A i \in 1..Len(tasks) : \A p \in phases(tasks[i].PreferredPhases) :
                Sum([j \in 1..Len(tasks) |->
                        IF p \in phases(tasks[j].PreferredPhases)
                        THEN tasks[j].Duration.n * tasks[j].MaxConcurrent.n ELSE 0], Len(tasks))
                <= Sum([j \in 1..Len(workers) |->
                        IF p \in phases(workers[j].AvailableSlots)
                        THEN workers[j].MaxLoadPerPhase.n ELSE 0], Len(workers))
        ValidInput(wb) ==
            /\ Len(wb) = 3
            /\ {getBaseSheetName(wb[i].name) : i \in 1..3} = BaseKinds
            /\ Valid(wb[FindSheet(wb, "Clients")].rows, wb[FindSheet(wb, "Workers")].rows,
                     wb[FindSheet(wb, "Tasks")].rows)
    IN  (runs >= 1 /\ ValidInput(before)) =>
            /\ ~validationResult.threw
            /\ validationResult.isValid
            /\ validationResult.errors = <<>>

\* C2: validateAllData never throws: every run on every snapshot returns a
\* result (a list cell that is no well-formed list counts as empty).
C2_NeverThrows == ~validationResult.threw

\* C3: in a Clients, Workers or Tasks sheet validateDuplicateIDs emits
\* exactly one error on row i when an earlier row has the same
\* string-coerced non-empty ID, and none on any other row.
C3_DuplicatesFlagged ==
    LET sheet  == before[fnArg]
        column == IdColumn(getBaseSheetName(sheet.name))
        id(i)  == Get(sheet.rows[i], column)
        nonEmpty(v)   == v.t \notin {"undef", "null"} /\ ToStr(v) # ""
        hasEarlier(i) == /\ nonEmpty(id(i))
                         /\ \E j \in 1..(i - 1) : nonEmpty(id(j)) /\ ToStr(id(j)) = ToStr(id(i))
        errorsOn(i)   == {k \in 1..Len(fnOut.errors) : fnOut.errors[k].rowIndex = i - 1}
    IN  (fn = "validateDuplicateIDs" /\ getBaseSheetName(sheet.name) \in BaseKinds) =>
            \A i \in 1..Len(sheet.rows) :
                Cardinality(errorsOn(i)) = IF hasEarlier(i) THEN 1 ELSE 0

\* C4: the second of two runs of validateAllData on the same snapshot
\* object returns what the first returned: the same errors in the same
\* order.
C4_SecondRunSame == runs >= 2 => validationResult = prevResult

\* C4 witness: a second run has returned errors on a snapshot whose first
\* client's AttributesJSON the first run repaired.
C4_Witness ==
    /\ runs = 2
    /\ validationResult.errors # <<>>
    /\ \E i \in 1..Len(workSheets) :
        /\ workSheets[i].rows # <<>>
        /\ Get(workSheets[i].rows[1], "AttributesJSON") = Str("{\"message\":\"vip customer\"}")

\* C5: a run of validateAllData keeps the sheets, their names, their rows
\* and the keys of every row, and changes no cell but an AttributesJSON cell
\* of a Clients sheet that held text which is no JSON.
C5_OnlyAttributesWritten ==
    runs >= 1 =>
        /\ Len(workSheets) = Len(before)
        /\ \A i \in 1..Len(before) :
            /\ workSheets[i].name = before[i].name
            /\ Len(workSheets[i].rows) = Len(before[i].rows)
            /\ \A j \in 1..Len(before[i].rows) :
                /\ DOMAIN workSheets[i].rows[j] = DOMAIN before[i].rows[j]
                /\ \A c \in DOMAIN before[i].rows[j] :
                    workSheets[i].rows[j][c] # before[i].rows[j][c] =>
                        /\ c = "AttributesJSON"
                        /\ getBaseSheetName(before[i].name) = "Clients"
                        /\ before[i].rows[j][c].t = "str"
                        /\ ~JSONParse(before[i].rows[j][c].s).ok

\* C5 witness: a run has rewritten a cell of the snapshot.
C5_Witness == runs >= 1 /\ workSheets # before

C7_AnywhereIsError ==
    (fn = "validateAttributesJSON" /\ getBaseSheetName(before[fnArg].name) = "Clients") =>
        \A i \in 1..Len(before[fnArg].rows) :
            LET v == Get(before[fnArg].rows[i], "AttributesJSON") IN
            (/\ v.t = "str" /\ v.s # ""
             /\ ~JSONParse(v.s).ok
             /\ \/ Includes(Trim(v.s), "{")
                \/ Includes(Trim(v.s), "[")
                \/ Includes(Trim(v.s), ":")) =>
                /\ workSheets[fnArg].rows[i].AttributesJSON = v
                /\ Cardinality({k \in 1..Len(fnOut.errors) :
                        /\ fnOut.errors[k].rowIndex = i - 1
                        /\ fnOut.errors[k].column = "AttributesJSON"}) = 1

\* C7 amended: a non-empty AttributesJSON text that is no JSON and whose
\* trimmed text starts with '{' or '[', or holds ':' anywhere, gets exactly
\* one AttributesJSON error on its row and is left as it was.
C7_LeadingBracketOrColonIsError ==
    (fn = "validateAttributesJSON" /\ getBaseSheetName(before[fnArg].name) = "Clients") =>
        \A i \in 1..Len(before[fnArg].rows) :
            LET v == Get(before[fnArg].rows[i], "AttributesJSON") IN
            (/\ v.t = "str" /\ v.s # ""
             /\ ~JSONParse(v.s).ok
             /\ \/ StartsWith(Trim(v.s), "{")
                \/ StartsWith(Trim(v.s), "[")
                \/ Includes(Trim(v.s), ":")) =>
                /\ workSheets[fnArg].rows[i].AttributesJSON = v
                /\ Cardinality({k \in 1..Len(fnOut.errors) :
                        /\ fnOut.errors[k].rowIndex = i - 1
                        /\ fnOut.errors[k].column = "AttributesJSON"}) = 1

\* C7 witness: "Note: call back" is still in its cell and its row has an
\* AttributesJSON error.
C7_Witness ==
    /\ fn = "validateAttributesJSON"
    /\ \E i \in 1..Len(before[fnArg].rows) :
        /\ Get(before[fnArg].rows[i], "AttributesJSON") = Str("Note: call back")
        /\ workSheets[fnArg].rows[i].AttributesJSON = Str("Note: call back")
        /\ \E k \in 1..Len(fnOut.errors) :
            fnOut.errors[k].rowIndex = i - 1 /\ fnOut.errors[k].column = "AttributesJSON"

\* C8: the number-list parser of the validators returns the numbers of a
\* comma-separated text, in order, non-numeric tokens dropped ("2,4,5"
\* gives [2,4,5]).
C8_CommaListParsed ==
    LET isCommaText == /\ Includes(pInput, ",")
                       /\ ~IsRangeText(pInput)
                       /\ ~StartsWith(Trim(pInput), "[")
        tokens  == Split(pInput, ",")
        numbers == SelectSeq([i \in 1..Len(tokens) |-> StrToNumber(tokens[i])],
                             LAMBDA x : x.t = "num")
    IN  (pStage = "parseNumberArray" /\ isCommaText) => pOut = Arr(numbers)

\* C9: the number-list parser expands "a-b" (a <= b non-negative integers)
\* to a, a+1, ..., b and returns the elements of a JSON numeric array text
\* in order, negative elements included.
C9_RangeAndArrayParsed ==
    LET dash    == SkipDigits(pInput, 1)
        isRange == /\ dash > 1
                   /\ dash < Len(pInput)
                   /\ CharAt(pInput, dash) = "-"
                   /\ SkipDigits(pInput, dash + 1) > Len(pInput)
        a       == DigitsVal(SubSeq(pInput, 1, dash - 1))
        b       == DigitsVal(SubSeq(pInput, dash + 1, Len(pInput)))
        parsed  == JSONParse(pInput)
        isArray == /\ StartsWith(pInput, "[")
                   /\ parsed.ok
                   /\ parsed.v.t = "arr"
                   /\ \A k \in 1..Len(parsed.v.a) : parsed.v.a[k].t = "num"
    IN  pStage = "parseNumberArray" =>
            /\ (isRange /\ a <= b) => pOut = Arr([i \in 1..(b - a + 1) |-> Num(a + i - 1)])
            /\ isArray => pOut = parsed.v

\* C10: on a Workers and a Tasks sheet whose list cells are lists without
\* repeats in an accepted encoding and whose numeric cells are numbers,
\* validatePhaseSlotSaturation returns exactly one error, with rowIndex -1,
\* for each phase whose demand (sum of Duration x MaxConcurrent over the
\* tasks that prefer it) exceeds its supply (sum of MaxLoadPerPhase over the
\* workers available in it), and no other error.
C10_SaturatedPhasesFlagged ==
    LET RECURSIVE Sum(_, _)
        Sum(f, n) == IF n = 0 THEN 0 ELSE f[n] + Sum(f, n - 1)
        isNat(s)    == s # "" /\ SkipDigits(s, 1) > Len(s)
        dash(s)     == SkipDigits(s, 1)
        isRange(s)  == /\ dash(s) > 1 /\ dash(s) < Len(s) /\ CharAt(s, dash(s)) = "-"
                       /\ isNat(SubSeq(s, dash(s) + 1, Len(s)))
                       /\ DigitsVal(SubSeq(s, 1, dash(s) - 1)) <= DigitsVal(SubSeq(s, dash(s) + 1, Len(s)))
        isArray(s)  == /\ StartsWith(s, "[") /\ JSONParse(s).ok /\ JSONParse(s).v.t = "arr"
                       /\ \A k \in 1..Len(JSONParse(s).v.a) : JSONParse(s).v.a[k].t = "num"
        isCommas(s) == /\ Includes(s, ",")
                       /\ \A k \in 1..Len(Split(s, ",")) : isNat(Trim(Split(s, ",")[k]))
        listOf(v)   == IF isRange(v.s)
                       THEN [k \in 1..(DigitsVal(SubSeq(v.s, dash(v.s) + 1, Len(v.s)))
                                        - DigitsVal(SubSeq(v.s, 1, dash(v.s) - 1)) + 1) |->
                                DigitsVal(SubSeq(v.s, 1, dash(v.s) - 1)) + k - 1]
                       ELSE IF isArray(v.s)
                       THEN [k \in 1..Len(JSONParse(v.s).v.a) |-> JSONParse(v.s).v.a[k].n]
                       ELSE [k \in 1..Len(Split(v.s, ",")) |-> DigitsVal(Trim(Split(v.s, ",")[k]))]
        isList(v)   == /\ v.t = "str"
                       /\ isRange(v.s) \/ isArray(v.s) \/ isCommas(v.s)
                       /\ \A k, l \in 1..Len(listOf(v)) : listOf(v)[k] = listOf(v)[l] => k = l
        phases(v)   == {listOf(v)[k] : k \in 1..Len(listOf(v))}
        tasks       == before[FindSheet(before, "Tasks")].rows
        workers     == before[FindSheet(before, "Workers")].rows
        wellFormed  ==
            /\ \A j \in 1..Len(workers) :
                /\ isList(Get(workers[j], "AvailableSlots"))
                /\ workers[j].MaxLoadPerPhase.t = "num"
            /\ \A j \in 1..Len(tasks) :
                /\ isList(Get(tasks[j], "PreferredPhases"))
                /\ tasks[j].Duration.t = "num"
                /\ tasks[j].MaxConcurrent.t = "num"
        demand(p)   == Sum([j \in 1..Len(tasks) |->
                            IF p \in phases(tasks[j].PreferredPhases)
                            THEN tasks[j].Duration.n * tasks[j].MaxConcurrent.n ELSE 0], Len(tasks))
        supply(p)   == Sum([j \in 1..Len(workers) |->
                            IF p \in phases(workers[j].AvailableSlots)
                            THEN workers[j].MaxLoadPerPhase.n ELSE 0], Len(workers))
        saturated   == {p \in UNION {phases(tasks[j].PreferredPhases) : j \in 1..Len(tasks)} :
                            demand(p) > supply(p)}
    IN  (fn = "validatePhaseSlotSaturation" /\ wellFormed) =>
            /\ ~fnOut.threw
            /\ \A k \in 1..Len(fnOut.errors) : fnOut.errors[k].rowIndex = -1
            /\ {fnOut.errors[k].message.args[1] : k \in 1..Len(fnOut.errors)}
                    = {Num(p) : p \in saturated}
            /\ Len(fnOut.errors) = Cardinality(saturated)

\* C11: with a Clients and a Tasks sheet, validateTaskReferences emits, for
\* every client row and every entry of its RequestedTaskIDs that is the
\* TaskID of no task row, exactly one error on that row in column
\* RequestedTaskIDs citing the entry, and none for an entry that is the
\* TaskID of a task row.
C11_ReferencesFlagged ==
    LET clients == before[FindSheet(before, "Clients")].rows
        tasks   == before[FindSheet(before, "Tasks")].rows
        isId(v) == v.t \in {"str", "num"}
        taskIds == {ToStr(Get(tasks[j], "TaskID")) : j \in {k \in 1..Len(tasks) : isId(Get(tasks[k], "TaskID"))}}
        entries(i) == parseCSVList(Get(clients[i], "RequestedTaskIDs"))
        times(i, e) == Cardinality({k \in 1..Len(entries(i)) : entries(i)[k] = e})
        citing(i, e) == {k \in 1..Len(fnOut.errors) :
                            /\ fnOut.errors[k].rowIndex = i - 1
                            /\ fnOut.errors[k].column = "RequestedTaskIDs"
                            /\ fnOut.errors[k].value = Str(e)}
    IN  fn = "validateTaskReferences" =>
            \A i \in 1..Len(clients) :
                \A k \in 1..Len(entries(i)) :
                    Cardinality(citing(i, entries(i)[k])) =
                        IF entries(i)[k] \in taskIds THEN 0 ELSE times(i, entries(i)[k])

\* C12: validateMaxConcurrency emits a MaxConcurrent error on a task row
\* exactly when the number of workers whose skill list shares at least one
\* skill with the task's RequiredSkills is smaller than MaxConcurrent; a
\* worker holding one of several required skills is counted.
C12_ConcurrencyFlagged ==
    LET workers == before[FindSheet(before, "Workers")].rows
        tasks   == before[FindSheet(before, "Tasks")].rows
        skills(row, column) == {parseCSVList(Get(row, column))[k] :
                                    k \in 1..Len(parseCSVList(Get(row, column)))}
        sharing(i) == {j \in 1..Len(workers) :
                          skills(workers[j], "Skills") \cap skills(tasks[i], "RequiredSkills") # {}}
        flagged(i) == {k \in 1..Len(fnOut.errors) :
                          /\ fnOut.errors[k].rowIndex = i - 1
                          /\ fnOut.errors[k].column = "MaxConcurrent"}
    IN  fn = "validateMaxConcurrency" =>
            \A i \in 1..Len(tasks) :
                Get(tasks[i], "MaxConcurrent").t = "num" =>
                    /\ Cardinality(flagged(i)) =
                          IF Cardinality(sharing(i)) < Get(tasks[i], "MaxConcurrent").n THEN 1 ELSE 0
                    /\ \A k \in 1..Len(fnOut.errors) : fnOut.errors[k].column = "MaxConcurrent"

\* C12 witness: the first task requires Skill1 and Skill3 with MaxConcurrent 3;
\* two workers each hold one of the two skills and none holds both, and the
\* task is flagged while the second task, with enough workers, is not.
C12_Witness ==
    /\ fn = "validateMaxConcurrency"
    /\ FindSheet(before, "Tasks") # 0
    /\ FindSheet(before, "Workers") # 0
    /\ LET workers == before[FindSheet(before, "Workers")].rows
           tasks   == before[FindSheet(before, "Tasks")].rows
       IN  /\ Len(tasks) >= 2
           /\ Get(tasks[1], "RequiredSkills") = Str("Skill1,Skill3")
           /\ Get(tasks[1], "MaxConcurrent") = Num(3)
           /\ Cardinality({j \in 1..Len(workers) :
                  Get(workers[j], "Skills") \in {Str("Skill1,Skill2"), Str("Skill2,Skill3")}}) = 2
           /\ Len(fnOut.errors) = 1
           /\ fnOut.errors[1].rowIndex = 0
           /\ fnOut.errors[1].column = "MaxConcurrent"

\* C13: validateSkillCoverage emits, for every task row and every skill of
\* its RequiredSkills that is in no worker's Skills list, exactly one error on
\* that row in column RequiredSkills, and none for a required skill that at
\* least one worker holds.
C13_MissingSkillsFlagged ==
    LET workers == before[FindSheet(before, "Workers")].rows
        tasks   == before[FindSheet(before, "Tasks")].rows
        listOf(row, column) == parseCSVList(Get(row, column))
        held(skill) == \E j \in 1..Len(workers) :
                           \E k \in 1..Len(listOf(workers[j], "Skills")) :
                               listOf(workers[j], "Skills")[k] = skill
        required(i) == listOf(tasks[i], "RequiredSkills")
        times(i, skill) == Cardinality({k \in 1..Len(required(i)) : required(i)[k] = skill})
        citing(i, skill) == {k \in 1..Len(fnOut.errors) :
                                /\ fnOut.errors[k].rowIndex = i - 1
                                /\ fnOut.errors[k].column = "RequiredSkills"
                                /\ fnOut.errors[k].value = Str(skill)}
    IN  fn = "validateSkillCoverage" =>
            /\ \A i \in 1..Len(tasks) :
                \A k \in 1..Len(required(i)) :
                    Cardinality(citing(i, required(i)[k])) =
                        IF held(required(i)[k]) THEN 0 ELSE times(i, required(i)[k])
            /\ \A k \in 1..Len(fnOut.errors) :
                /\ fnOut.errors[k].column = "RequiredSkills"
                /\ fnOut.errors[k].rowIndex \in 0..(Len(tasks) - 1)

\* C13 witness: the first task requires Skill1 and Skill3; only the second
\* worker holds Skill3 and no worker holds Skill1, so the one error on the
\* task cites Skill1.
C13_Witness ==
    /\ fn = "validateSkillCoverage"
    /\ FindSheet(before, "Tasks") # 0
    /\ FindSheet(before, "Workers") # 0
    /\ LET workers == before[FindSheet(before, "Workers")].rows
           tasks   == before[FindSheet(before, "Tasks")].rows
       IN  /\ Len(workers) >= 2
           /\ Len(tasks) >= 1
           /\ Get(tasks[1], "RequiredSkills") = Str("Skill1,Skill3")
           /\ Get(workers[1], "Skills") = Str("Skill9")
           /\ Get(workers[2], "Skills") = Str("Skill2,Skill3")
           /\ \E k \in 1..Len(fnOut.errors) :
                /\ fnOut.errors[k].rowIndex = 0
                /\ fnOut.errors[k].value = Str("Skill1")
           /\ \A k \in 1..Len(fnOut.errors) : fnOut.errors[k].value # Str("Skill3")

\* C14: validateWorkerOverload emits a MaxLoadPerPhase error on a worker row
\* exactly when the number of phases of its AvailableSlots (a range, a JSON
\* array or a comma list of numbers) is smaller than its numeric
\* MaxLoadPerPhase, whenever the check returns.
C14_OverloadFlagged ==
    LET isNat(s)    == s # "" /\ SkipDigits(s, 1) > Len(s)
        dash(s)     == SkipDigits(s, 1)
        isRange(s)  == /\ dash(s) > 1 /\ dash(s) < Len(s) /\ CharAt(s, dash(s)) = "-"
                       /\ isNat(SubSeq(s, dash(s) + 1, Len(s)))
                       /\ DigitsVal(SubSeq(s, 1, dash(s) - 1)) <= DigitsVal(SubSeq(s, dash(s) + 1, Len(s)))
        isArray(s)  == /\ StartsWith(s, "[") /\ JSONParse(s).ok /\ JSONParse(s).v.t = "arr"
                       /\ \A k \in 1..Len(JSONParse(s).v.a) : JSONParse(s).v.a[k].t = "num"
        isCommas(s) == /\ Includes(s, ",")
                       /\ \A k \in 1..Len(Split(s, ",")) : isNat(Trim(Split(s, ",")[k]))
        isList(v)   == v.t = "str" /\ (isRange(v.s) \/ isArray(v.s) \/ isCommas(v.s))
        count(v)    == IF isRange(v.s)
                       THEN DigitsVal(SubSeq(v.s, dash(v.s) + 1, Len(v.s)))
                                - DigitsVal(SubSeq(v.s, 1, dash(v.s) - 1)) + 1
                       ELSE IF isArray(v.s) THEN Len(JSONParse(v.s).v.a)
                       ELSE Len(Split(v.s, ","))
        workers     == before[fnArg].rows
        flagged(i)  == {k \in 1..Len(fnOut.errors) :
                           /\ fnOut.errors[k].rowIndex = i - 1
                           /\ fnOut.errors[k].column = "MaxLoadPerPhase"}
    IN  (fn = "validateWorkerOverload" /\ ~fnOut.threw) =>
            \A i \in 1..Len(workers) :
                (isList(Get(workers[i], "AvailableSlots")) /\ Get(workers[i], "MaxLoadPerPhase").t = "num") =>
                    Cardinality(flagged(i)) =
                        IF count(Get(workers[i], "AvailableSlots")) < Get(workers[i], "MaxLoadPerPhase").n
                        THEN 1 ELSE 0

\* C15: on a Clients sheet validatePriorityLevel emits exactly one
\* PriorityLevel error on a row whose value is no number or is outside 1..5,
\* and none on a row whose value is an integer in 1..5.
C15_PriorityRange ==
    LET sheet == before[fnArg]
        isNumber(v) == v.t = "num" \/ (v.t = "str" /\ v.s # "" /\ SkipDigits(v.s, 1) > Len(v.s))
        valueOf(v)  == IF v.t = "num" THEN v.n ELSE DigitsVal(v.s)
        inRange(v)  == isNumber(v) /\ valueOf(v) \in 1..5
        errorsOn(i) == {k \in 1..Len(fnOut.errors) : fnOut.errors[k].rowIndex = i - 1}
    IN  (fn = "validatePriorityLevel" /\ getBaseSheetName(sheet.name) = "Clients") =>
            /\ \A i \in 1..Len(sheet.rows) :
                Cardinality(errorsOn(i)) = IF inRange(Get(sheet.rows[i], "PriorityLevel")) THEN 0 ELSE 1
            /\ \A k \in 1..Len(fnOut.errors) :
                /\ fnOut.errors[k].column = "PriorityLevel"
                /\ fnOut.errors[k].rowIndex \in 0..(Len(sheet.rows) - 1)

\* C15 witness: a Clients sheet whose first row has PriorityLevel 0 and whose
\* second row has PriorityLevel 5; only the first row is flagged.
C15_Witness ==
    /\ fn = "validatePriorityLevel"
    /\ Len(before[fnArg].rows) >= 2
    /\ Get(before[fnArg].rows[1], "PriorityLevel") = Num(0)
    /\ Get(before[fnArg].rows[2], "PriorityLevel") = Num(5)
    /\ Len(fnOut.errors) = 1
    /\ fnOut.errors[1].rowIndex = 0
    /\ fnOut.errors[1].column = "PriorityLevel"

\* C16: on a Tasks sheet validateDuration emits exactly one Duration error on
\* a row whose value is no number or is less than 1 and none on a row whose
\* value is a number >= 1; on a sheet of any other kind it emits nothing.
C16_DurationRange ==
    LET sheet == before[fnArg]
        isNumber(v) == v.t = "num" \/ (v.t = "str" /\ v.s # "" /\ SkipDigits(v.s, 1) > Len(v.s))
        valueOf(v)  == IF v.t = "num" THEN v.n ELSE DigitsVal(v.s)
        atLeastOne(v) == isNumber(v) /\ valueOf(v) >= 1
        errorsOn(i) == {k \in 1..Len(fnOut.errors) : fnOut.errors[k].rowIndex = i - 1}
    IN  fn = "validateDuration" =>
            IF getBaseSheetName(sheet.name) = "Tasks"
            THEN /\ \A i \in 1..Len(sheet.rows) :
                     Cardinality(errorsOn(i)) = IF atLeastOne(Get(sheet.rows[i], "Duration")) THEN 0 ELSE 1
                 /\ \A k \in 1..Len(fnOut.errors) :
                     /\ fnOut.errors[k].column = "Duration"
                     /\ fnOut.errors[k].rowIndex \in 0..(Len(sheet.rows) - 1)
            ELSE fnOut.errors = <<>>

\* C16 witness: a Tasks sheet whose first row has Duration 0 and whose second
\* row has Duration 1; only the first row is flagged.
C16_Witness ==
    /\ fn = "validateDuration"
    /\ getBaseSheetName(before[fnArg].name) = "Tasks"
    /\ Len(before[fnArg].rows) >= 2
    /\ Get(before[fnArg].rows[1], "Duration") = Num(0)
    /\ Get(before[fnArg].rows[2], "Duration") = Num(1)
    /\ Len(fnOut.errors) = 1
    /\ fnOut.errors[1].rowIndex = 0
    /\ fnOut.errors[1].column = "Duration"

\* C17: in the result of validateAllData every row of a Workers sheet whose
\* MaxLoadPerPhase is negative or no number, and every row of a Tasks sheet
\* whose MaxConcurrent is negative or no number, has an error on that cell.
C17_LoadAndConcurrencyRange ==
    LET isNumber(v) == v.t = "num" \/ (v.t = "str" /\ v.s # "" /\ SkipDigits(v.s, 1) > Len(v.s))
        outOfRange(v) == v.t \in {"num", "str"} /\ (~isNumber(v) \/ (v.t = "num" /\ v.n < 0))
        flagged(i, column) == \E k \in 1..Len(validationResult.errors) :
                                  /\ validationResult.errors[k].rowIndex = i - 1
                                  /\ validationResult.errors[k].column = column
        checked(kind, column) ==
            \A s \in 1..Len(workSheets) :
                getBaseSheetName(workSheets[s].name) = kind =>
                    \A i \in 1..Len(workSheets[s].rows) :
                        outOfRange(Get(workSheets[s].rows[i], column)) => flagged(i, column)
    IN  (runs >= 1 /\ ~validationResult.threw) =>
            /\ checked("Workers", "MaxLoadPerPhase")
            /\ checked("Tasks", "MaxConcurrent")

\* C18: on a Workers sheet, whenever validateAvailableSlots returns, a row
\* whose AvailableSlots is a non-empty string that is neither a range, a JSON
\* array nor a comma list of numbers has an AvailableSlots error citing the
\* raw value.
C18_MalformedSlotsFlagged ==
    LET isNat(s)    == s # "" /\ SkipDigits(s, 1) > Len(s)
        dash(s)     == SkipDigits(s, 1)
        isRange(s)  == /\ dash(s) > 1 /\ dash(s) < Len(s) /\ CharAt(s, dash(s)) = "-"
                       /\ isNat(SubSeq(s, dash(s) + 1, Len(s)))
        isArray(s)  == StartsWith(s, "[") /\ JSONParse(s).ok /\ JSONParse(s).v.t = "arr"
        isCommas(s) == \A k \in 1..Len(Split(s, ",")) : isNat(Trim(Split(s, ",")[k]))
        malformed(v) == v.t = "str" /\ v.s # "" /\ ~isRange(v.s) /\ ~isArray(v.s) /\ ~isCommas(v.s)
        sheet == before[fnArg]
        cited(i) == \E k \in 1..Len(fnOut.errors) :
                        /\ fnOut.errors[k].rowIndex = i - 1
                        /\ fnOut.errors[k].column = "AvailableSlots"
                        /\ fnOut.errors[k].value = Get(sheet.rows[i], "AvailableSlots")
    IN  (fn = "validateAvailableSlots" /\ getBaseSheetName(sheet.name) = "Workers" /\ ~fnOut.threw) =>
            \A i \in 1..Len(sheet.rows) :
                malformed(Get(sheet.rows[i], "AvailableSlots")) => cited(i)

\* C19: in the result of validateAllData every row of a classified sheet has,
\* for every required field of its kind (the ID, the name, PriorityLevel,
\* Duration) whose value is undefined or empty, an error tagged with the
\* field's name and the row's index.
C19_RequiredFieldsFlagged ==
    LET empty(v) == v.t = "undef" \/ v = Str("")
        marked == {"ClientID", "ClientName", "PriorityLevel", "WorkerID", "WorkerName",
                   "TaskID", "TaskName", "Duration"}
        required(s) == SelectSeq(REQUIRED_COLUMNS(getBaseSheetName(workSheets[s].name)),
                                 LAMBDA column : column \in marked)
        flagged(i, column) == \E k \in 1..Len(validationResult.errors) :
                                  /\ validationResult.errors[k].rowIndex = i - 1
                                  /\ validationResult.errors[k].column = column
    IN  (runs >= 1 /\ ~validationResult.threw) =>
            \A s \in 1..Len(workSheets) :
                getBaseSheetName(workSheets[s].name) \in BaseKinds =>
                    \A i \in 1..Len(workSheets[s].rows) :
                        \A c \in 1..Len(required(s)) :
                            empty(Get(workSheets[s].rows[i], required(s)[c])) => flagged(i, required(s)[c])

\* C20: for a non-empty Clients, Workers or Tasks sheet validateRequiredColumns
\* emits exactly one error, with rowIndex -1, for each required column of the
\* kind that is absent from the sheet's header, and none for a column that is
\* present, whatever the number of rows; for an empty sheet it emits none.
C20_MissingColumnsFlagged ==
    LET sheet    == before[fnArg]
        required == REQUIRED_COLUMNS(getBaseSheetName(sheet.name))
        header   == DOMAIN sheet.rows[1]
        naming(column) == {k \in 1..Len(fnOut.errors) : fnOut.errors[k].column = column}
    IN  (fn = "validateRequiredColumns" /\ getBaseSheetName(sheet.name) \in BaseKinds) =>
            IF sheet.rows = <<>> THEN fnOut.errors = <<>>
            ELSE /\ \A c \in 1..Len(required) :
                     Cardinality(naming(required[c])) = IF required[c] \in header THEN 0 ELSE 1
                 /\ \A k \in 1..Len(fnOut.errors) :
                     /\ fnOut.errors[k].rowIndex = -1
                     /\ \E c \in 1..Len(required) : fnOut.errors[k].column = required[c]

\* C20 witness: a Workers sheet of two rows without the AvailableSlots column
\* gets one error, with rowIndex -1, naming AvailableSlots.
C20_Witness ==
    /\ fn = "validateRequiredColumns"
    /\ getBaseSheetName(before[fnArg].name) = "Workers"
    /\ Len(before[fnArg].rows) = 2
    /\ "AvailableSlots" \notin DOMAIN before[fnArg].rows[1]
    /\ Len(fnOut.errors) = 1
    /\ fnOut.errors[1].rowIndex = -1
    /\ fnOut.errors[1].column = "AvailableSlots"

\* C21: a sheet is classified as Clients, Workers or Tasks exactly when its
\* name, lower-cased and trimmed, starts with "client", "worker" or "task",
\* and a sheet of no kind is inert: a run of validateAllData returns no error
\* naming it, and returns what it returns on the workbook without such
\* sheets.
C21_UnmatchedSheetsInert ==
    LET clean(name) == Trim(ToLowerCase(name))
        kindOf(name) == IF StartsWith(clean(name), "client") THEN "Clients"
                        ELSE IF StartsWith(clean(name), "worker") THEN "Workers"
                        ELSE IF StartsWith(clean(name), "task") THEN "Tasks"
                        ELSE "none"
        classified(sheet) == kindOf(sheet.name) # "none"
    IN  /\ \A s \in 1..Len(before) :
            IF classified(before[s]) THEN getBaseSheetName(before[s].name) = kindOf(before[s].name)
            ELSE getBaseSheetName(before[s].name) \notin BaseKinds
        /\ runs >= 1 =>
            /\ \A k \in 1..Len(validationResult.errors) :
                \A s \in 1..Len(before) :
                    validationResult.errors[k].sheetName = before[s].name => classified(before[s])
            /\ validationResult = validateAllData(SelectSeq(before, classified)).result

\* C22: the result of validateAllData holds a task-reference error only if
\* the workbook has a Clients and a Tasks sheet, a worker-overload error only
\* if it has a Workers sheet, and a skill-coverage, max-concurrency or
\* phase-saturation error only if it has a Workers and a Tasks sheet.
C22_ChecksNeedTheirSheets ==
    LET has(kind) == \E s \in 1..Len(before) : getBaseSheetName(before[s].name) = kind
        emitted(tpl) == \E k \in 1..Len(validationResult.errors) :
                            validationResult.errors[k].message.tpl = tpl
    IN  runs >= 1 =>
            /\ emitted("RequestedTaskID not found in Tasks sheet") => (has("Clients") /\ has("Tasks"))
            /\ emitted("Worker has available slots but MaxLoadPerPhase is") => has("Workers")
            /\ emitted("Required skill not available in any worker") => (has("Workers") /\ has("Tasks"))
            /\ emitted("MaxConcurrent exceeds qualified workers") => (has("Workers") /\ has("Tasks"))
            /\ emitted("Phase requires slots but only are available") => (has("Workers") /\ has("Tasks"))

\* C22 witness: a run on a workbook with a Clients and a Workers sheet and no
\* Tasks sheet has returned a worker-overload error and, although the clients
\* request tasks, no task-reference error.
C22_Witness ==
    /\ runs >= 1
    /\ ~validationResult.threw
    /\ \E s \in 1..Len(before) :
        /\ getBaseSheetName(before[s].name) = "Clients"
        /\ before[s].rows # <<>>
        /\ parseCSVList(Get(before[s].rows[1], "RequestedTaskIDs")) # <<>>
    /\ \E s \in 1..Len(before) : getBaseSheetName(before[s].name) = "Workers"
    /\ \A s \in 1..Len(before) : getBaseSheetName(before[s].name) # "Tasks"
    /\ \E k \in 1..Len(validationResult.errors) :
        validationResult.errors[k].message.tpl = "Worker has available slots but MaxLoadPerPhase is"
    /\ \A k \in 1..Len(validationResult.errors) :
        validationResult.errors[k].message.tpl # "RequestedTaskID not found in Tasks sheet"

\* C23: every error returned by validateAllData carries the name of a sheet
\* of the workbook as its sheetName, and an error of a cross-entity check
\* carries the name of the first sheet of its kind: the first Clients sheet
\* for a task-reference error, the first Workers sheet for a worker-overload
\* error, the first Tasks sheet for a skill-coverage, max-concurrency or
\* phase-saturation error.
C23_ErrorsNameUploadedSheets ==
    LET names == {before[s].name : s \in 1..Len(before)}
        isFirst(name, kind) ==
            \E s \in 1..Len(before) :
                /\ before[s].name = name
                /\ getBaseSheetName(name) = kind
                /\ \A r \in 1..(s - 1) : getBaseSheetName(before[r].name) # kind
        kindOf(tpl) ==
            CASE tpl = "RequestedTaskID not found in Tasks sheet" -> "Clients"
              [] tpl = "Worker has available slots but MaxLoadPerPhase is" -> "Workers"
              [] tpl \in {"Required skill not available in any worker",
                          "MaxConcurrent exceeds qualified workers",
                          "Phase requires slots but only are available"} -> "Tasks"
              [] OTHER -> "none"
    IN  runs >= 1 =>
            \A k \in 1..Len(validationResult.errors) :
                /\ validationResult.errors[k].sheetName \in names
                /\ kindOf(validationResult.errors[k].message.tpl) # "none" =>
                       isFirst(validationResult.errors[k].sheetName,
                               kindOf(validationResult.errors[k].message.tpl))

\* C23 witness: on a workbook with the sheets "Worker 1" and "Workers 2" a
\* run has returned a worker-overload error, and it names "Worker 1".
C23_Witness ==
    /\ runs >= 1
    /\ \E s, r \in 1..Len(before) :
        s < r /\ before[s].name = "Worker 1" /\ before[r].name = "Workers 2"
    /\ \E k \in 1..Len(validationResult.errors) :
        /\ validationResult.errors[k].message.tpl = "Worker has available slots but MaxLoadPerPhase is"
        /\ validationResult.errors[k].sheetName = "Worker 1"

\* C24: a result returned by validateAllData has isValid = true exactly when
\* its error list is empty.
C24_ValidIffNoErrors ==
    (runs >= 1 /\ ~validationResult.threw) =>
        (validationResult.isValid <=> validationResult.errors = <<>>)

\* C24 witness: a run has returned errors, all of them from cross-entity
\* checks, and isValid = false.
C24_Witness ==
    /\ runs >= 1
    /\ ~validationResult.threw
    /\ ~validationResult.isValid
    /\ validationResult.errors # <<>>
    /\ \A k \in 1..Len(validationResult.errors) :
        validationResult.errors[k].message.tpl \in
            {"RequestedTaskID not found in Tasks sheet",
             "Worker has available slots but MaxLoadPerPhase is",
             "Required skill not available in any worker",
             "MaxConcurrent exceeds qualified workers",
             "Phase requires slots but only are available"}

\* C25: after every upload and every saved edit, once the handlers and the
\* effect have run, the validation result on display is what validateAllData
\* returns for the sheets the page holds.
C25_DisplayedResultCurrent ==
    (workSheets # NoSheets /\ ~validationResult.threw)
        => validationResult = validateAllData(workSheets).result

\* an edit saved with Enter changed the sheets and the result on display has
\* an error
C25_Witness ==
    /\ fn = "enter"
    /\ ui.saved # <<>>
    /\ workSheets # before
    /\ ~validationResult.isValid

\* C26: after an upload and after any saved edit, the PreferredPhases cell
\* of every row of a Tasks sheet is a string holding the JSON text of a
\* phase sequence, and normalizing the stored text again gives that
\* sequence.
C26_PhasesStoredAsJSONText ==
    \A i \in 1..Len(workSheets) :
        getBaseSheetName(workSheets[i].name) = "Tasks" =>
            \A j \in 1..Len(workSheets[i].rows) :
                "PreferredPhases" \in DOMAIN workSheets[i].rows[j] =>
                    LET p == workSheets[i].rows[j]["PreferredPhases"] IN
                        /\ p.t = "str"
                        /\ JSONParse(p.s).ok
                        /\ JSONParse(p.s).v.t = "arr"
                        /\ JSONStringify(JSONParse(p.s).v) = p.s
                        /\ normalizePreferredPhases(p.s) = JSONParse(p.s).v

\* C28: a saved edit changes one cell only: every sheet keeps its place and
\* name, every sheet but the edited one is as it was, and the edited sheet
\* has the same number of rows, all of them as they were except one row,
\* which differs at most in the edited column (also when the table shows
\* the rows of a search).
C28_EditChangesOneCell ==
    (ui.saved # <<>> /\ ~validationResult.threw) =>
        /\ Len(workSheets) = Len(before)
        /\ \A i \in 1..Len(workSheets) :
            /\ workSheets[i].name = before[i].name
            /\ workSheets[i].name # ui.saved.sheet => workSheets[i] = before[i]
            /\ workSheets[i].name = ui.saved.sheet =>
                /\ Len(workSheets[i].rows) = Len(before[i].rows)
                /\ \E j \in 1..Len(workSheets[i].rows) :
                    /\ \A k \in 1..Len(workSheets[i].rows) :
                        k # j => workSheets[i].rows[k] = before[i].rows[k]
                    /\ DOMAIN workSheets[i].rows[j] = DOMAIN before[i].rows[j]
                    /\ \A c \in DOMAIN workSheets[i].rows[j] :
                        c # ui.saved.column =>
                            workSheets[i].rows[j][c] = before[i].rows[j][c]

\* C29: cancelling an edit, with the Escape key or with the cancel button,
\* ends the editing state, leaves every cell of the sheets as it was and
\* does not call onDataChange.
C29_CancelLeavesData ==
    (fn \in {"escape", "cancel"} /\ ~validationResult.threw) =>
        /\ ui.editingCell = <<>>
        /\ workSheets = before
        /\ ui.saved = <<>>

\* C27: the row the mapper builds has exactly the canonical field names of
\* the entity kind as its keys; a field with no raw key equal to it
\* ignoring case is undefined (not 0, not "", not an empty list); any other
\* field holds the value of the first such raw key, parsed by the field's
\* type, and that value itself for a plain field.
C27_MapperFirstMatchOrUndefined ==
    LET canonical == CASE mp.type = "clients" -> ClientColumns
                       [] mp.type = "workers" -> WorkerColumns
                       [] mp.type = "tasks"   -> TaskColumns
        plain == {"ClientID", "ClientName", "GroupTag", "WorkerID", "WorkerName",
                  "WorkerGroup", "QualificationLevel", "TaskID", "TaskName", "Category",
                  "RequiredSkills"}
        Matches(h) == {i \in 1..Len(mp.row) : ToLowerCase(mp.row[i].key) = ToLowerCase(h)}
        First(h) == CHOOSE i \in Matches(h) : \A k \in Matches(h) : i <= k
    IN  mp.stage = "mapped" =>
            /\ DOMAIN mp.newRow = {canonical[k] : k \in 1..Len(canonical)}
            /\ \A h \in DOMAIN mp.newRow :
                IF Matches(h) = {}
                THEN /\ mp.newRow[h] = Undef
                     /\ mp.newRow[h] \notin {Num(0), Str(""), Arr(<<>>)}
                ELSE /\ mp.newRow[h] = ParsedField(h, mp.row[First(h)].value)
                     /\ h \in plain => mp.newRow[h] = mp.row[First(h)].value

\* a clients row was mapped whose keys "clientid" and "ClientID" collide,
\* the first holding 2 and the second "1-3", and which has no GroupTag key
C27_Witness ==
    /\ mp.stage = "mapped"
    /\ mp.type = "clients"
    /\ mp.row = <<[key |-> "clientid", value |-> Num(2)], [key |-> "ClientID", value |-> Str("1-3")]>>
    /\ mp.newRow["ClientID"] = Num(2)
    /\ mp.newRow["GroupTag"] = Undef

\* C30: validateTaskReferences emits no error for a RequestedTaskIDs entry
\* that is the text of the TaskID cell of a task row, whether that cell
\* holds a string or a number.
C30_ReferenceMatchedByText ==
    LET clients == before[FindSheet(before, "Clients")].rows
        tasks   == before[FindSheet(before, "Tasks")].rows
        Resolved(e) == \E j \in 1..Len(tasks) :
                          /\ Get(tasks[j], "TaskID").t \in {"str", "num"}
                          /\ ToStr(Get(tasks[j], "TaskID")) = e
    IN  fn = "validateTaskReferences" =>
            \A i \in 1..Len(clients) :
                \A k \in 1..Len(parseCSVList(Get(clients[i], "RequestedTaskIDs"))) :
                    Resolved(parseCSVList(Get(clients[i], "RequestedTaskIDs"))[k]) =>
                        ~\E m \in 1..Len(fnOut.errors) :
                            /\ fnOut.errors[m].rowIndex = i - 1
                            /\ fnOut.errors[m].value =
                                  Str(parseCSVList(Get(clients[i], "RequestedTaskIDs"))[k])

====
